---- MODULE Spec2Model ----
(***************************************************************************)
(* A model of the utility layer of the CBPM application (src/utils.py).   *)
(* The utilities are pure functions: each is an operator, computed the    *)
(* way the Python code computes it, and each component has its own        *)
(* specification whose initial states draw the inputs and whose actions   *)
(* apply the functions.                                                    *)
(*                                                                         *)
(* Text is modelled as a sequence of code points (integers) where the     *)
(* code works on the bytes (passwords, salts) and as a sequence of        *)
(* one-character strings where it works on character classes.             *)
(***************************************************************************)
EXTENDS Integers, Sequences, FiniteSets, TLC

VARIABLES
    pc,          \* which component runs and where it is
    sec_pw,      \* Security: the password given to hash_password
    sec_cred,    \* Security: the (hash, salt) pair hash_password returned
    sec_try,     \* Security: the password given to verify_password
    sec_ok,      \* Security: what verify_password returned
    val_in,      \* Validation: the argument of the call
    val_fn,      \* Validation: the function called
    val_out,     \* Validation: how the call ended (value returned, or exception)
    rep_in,      \* Reporting: the list of records given (inventory lines, transactions)
    rep_now,     \* Reporting: what datetime.datetime.now() returns during the call
    rep_days,    \* Reporting: period_days
    rep_out,     \* Reporting: the report returned
    calc_fn,     \* Calculation: the function called
    calc_in,     \* Calculation: the arguments of the call
    calc_out,    \* Calculation: the number returned
    exp_fn,      \* Export: the function called
    exp_data,    \* Export: the records given
    exp_path,    \* Export: whether the file named can be opened for writing
    exp_file,    \* Export: what the file name refers to (no file, or a file and its text)
    exp_out,     \* Export: how the call ended
    exp_read,    \* Export: what reading the file back and parsing it gave
    db,          \* Database: the rows of the tables, as committed
    flag_file,   \* Database: whether admin_reset_done.flag exists
    db_op,       \* Database: the program that ran last
    db_ret,      \* Database: how it ended
    setup_ok,    \* Database: how many runs of setup.main returned True so far
    launch_ok,   \* Database: how many runs of ensure_default_admin returned so far
    resets,      \* Database: how many times the administrator reset was committed
    runs,        \* Database: how many programs ran so far
    file_in,     \* Files: the file name given to sanitize_filename
    file_out     \* Files: the file name it returned

vars == <<pc, sec_pw, sec_cred, sec_try, sec_ok, val_in, val_fn, val_out,
          rep_in, rep_now, rep_days, rep_out, calc_fn, calc_in, calc_out,
          exp_fn, exp_data, exp_path, exp_file, exp_out, exp_read,
          db, flag_file, db_op, db_ret, setup_ok, launch_ok, resets, runs,
          file_in, file_out>>

secVars == <<sec_pw, sec_cred, sec_try, sec_ok>>
valVars == <<val_in, val_fn, val_out>>
repVars == <<rep_in, rep_now, rep_days, rep_out>>
calcVars == <<calc_fn, calc_in, calc_out>>
expVars == <<exp_fn, exp_data, exp_path, exp_file, exp_out, exp_read>>
dbVars == <<db, flag_file, db_op, db_ret, setup_ok, launch_ok, resets, runs>>
fileVars == <<file_in, file_out>>

\* The variables of a component that is not running.
SecIdle == sec_pw = "None" /\ sec_cred = "None" /\ sec_try = "None" /\ sec_ok = "None"
ValIdle == val_in = "None" /\ val_fn = "None" /\ val_out = "None"
RepIdle == rep_in = "None" /\ rep_now = "None" /\ rep_days = "None" /\ rep_out = "None"
CalcIdle == calc_fn = "None" /\ calc_in = "None" /\ calc_out = "None"
ExpIdle ==
    /\ exp_fn = "None" /\ exp_data = "None" /\ exp_path = "None"
    /\ exp_file = "None" /\ exp_out = "None" /\ exp_read = "None"
DbIdle ==
    /\ db = "None" /\ flag_file = "None" /\ db_op = "None" /\ db_ret = "None"
    /\ setup_ok = "None" /\ launch_ok = "None" /\ resets = "None" /\ runs = "None"
FileIdle == file_in = "None" /\ file_out = "None"

\* Python's None.
None == "None"

\* Sequences over S of length 0..n.
SeqUpTo(S, n) == UNION {[1..k -> S] : k \in 0..n}

\* The sequence of n copies of x.
Rep(x, n) == [i \in 1..n |-> x]

(***************************************************************************)
(* Security: hash_password / verify_password                               *)
(***************************************************************************)

\* Longest password, in characters.
MaxPwLen == 2

\* Code points a password is made of: NUL, 'a', and e-acute (two UTF-8 bytes).
PwChars == {0, 97, 233}

Passwords == SeqUpTo(PwChars, MaxPwLen)

\* os.urandom(32): 32 random bytes; the model draws from a few of them.
URandomLen == 32
RndByteValues == {0, 171}
URandom == {Rep(b, URandomLen) : b \in RndByteValues}

\* str.encode('utf-8') of one code point.
EncodeChar(cp) ==
    IF cp < 128 THEN <<cp>>
    ELSE IF cp < 2048 THEN <<192 + (cp \div 64), 128 + (cp % 64)>>
    ELSE <<224 + (cp \div 4096), 128 + ((cp \div 64) % 64), 128 + (cp % 64)>>

\* str.encode('utf-8').
RECURSIVE Encode(_)
Encode(s) == IF s = <<>> THEN <<>> ELSE EncodeChar(Head(s)) \o Encode(Tail(s))

\* The code point of a hexadecimal digit 0..15, lower case.
HexDigit(n) == IF n < 10 THEN 48 + n ELSE 87 + n

\* bytes.hex(): two lower-case hexadecimal digits per byte.
RECURSIVE Hex(_)
Hex(bytes) ==
    IF bytes = <<>> THEN <<>>
    ELSE <<HexDigit(Head(bytes) \div 16), HexDigit(Head(bytes) % 16)>> \o Hex(Tail(bytes))

\* SHA-256 works on blocks of 64 bytes; PBKDF2 runs 100000 rounds.
BlockSize == 64
Iterations == 100000

\* A byte string without the zero bytes it ends with.
RECURSIVE StripZeros(_)
StripZeros(bytes) ==
    IF bytes # <<>> /\ bytes[Len(bytes)] = 0
    THEN StripZeros(SubSeq(bytes, 1, Len(bytes) - 1))
    ELSE bytes

\* The key HMAC works with: a key longer than a block is replaced by its
\* digest, a shorter one is padded with zero bytes to the block size.  The
\* padded block is written as its bytes up to the last non-zero one and the
\* number of zero bytes that follow.
HmacKey(key) ==
    IF Len(key) > BlockSize
    THEN [kind |-> "sha256", of |-> key, zeros |-> 0]
    ELSE [kind |-> "raw", of |-> StripZeros(key),
          zeros |-> BlockSize - Len(StripZeros(key))]

\* hashlib.pbkdf2_hmac('sha256', password, salt, iterations): a digest that
\* is a function of the HMAC key, the salt and the round count, taken as
\* collision-free (two digests are equal only if these three are).
pbkdf2_hmac(password, salt, iterations) ==
    [key |-> HmacKey(password), salt |-> salt, rounds |-> iterations]

\* An Optional[...] argument: <<>> is None, <<x>> is the value x.
NoValue == <<>>
Some(x) == <<x>>

\* A bug for hash_password: the salt given is ignored and a fresh one drawn.
hash_password_fresh_salt(password, salt, rnd) ==
    LET s == Hex(rnd)
    IN  <<[hex |-> pbkdf2_hmac(Encode(password), Encode(s), Iterations)], s>>

\* SecurityUtils.hash_password(password, salt); rnd is what os.urandom(32)
\* returns if it is called.
hash_password(password, salt, rnd) ==
    LET s == IF salt = NoValue THEN Hex(rnd) ELSE salt[1]
    IN  <<[hex |-> pbkdf2_hmac(Encode(password), Encode(s), Iterations)], s>>

\* A bug for verify_password: the salt of the pair is compared, not the hash.
verify_password_wrong_element(password, stored_hash, salt, rnd) ==
    hash_password(password, Some(salt), rnd)[2] = salt

\* SecurityUtils.verify_password(password, stored_hash, salt).
verify_password(password, stored_hash, salt, rnd) ==
    hash_password(password, Some(salt), rnd)[1] = stored_hash

InitSecurity ==
    /\ pc = "sec_start"
    /\ sec_pw \in Passwords
    /\ sec_cred = None
    /\ sec_try = None
    /\ sec_ok = None
    /\ ValIdle /\ RepIdle /\ CalcIdle /\ ExpIdle /\ DbIdle /\ FileIdle

\* A caller derives the credential of sec_pw, with no salt given.
HashPassword ==
    /\ pc = "sec_start"
    /\ \E rnd \in URandom : sec_cred' = hash_password(sec_pw, NoValue, rnd)
    /\ pc' = "sec_stored"
    /\ UNCHANGED <<sec_pw, sec_try, sec_ok>>
    /\ UNCHANGED <<valVars, repVars, calcVars, expVars, dbVars, fileVars>>

\* A caller verifies some password against the stored hash and salt.
VerifyPassword ==
    /\ pc \in {"sec_stored", "sec_verified"}
    /\ \E q \in Passwords, rnd \in URandom :
          /\ sec_try' = q
          /\ sec_ok' = verify_password(q, sec_cred[1], sec_cred[2], rnd)
    /\ pc' = "sec_verified"
    /\ UNCHANGED <<sec_pw, sec_cred>>
    /\ UNCHANGED <<valVars, repVars, calcVars, expVars, dbVars, fileVars>>

NextSecurity == HashPassword \/ VerifyPassword

SpecSecurity == InitSecurity /\ [][NextSecurity]_vars

\* C1: verifying the password that was hashed, against the hash and the salt
\* hash_password returned for it, yields true.
C1_RoundTrip ==
    (pc = "sec_verified" /\ sec_try = sec_pw) => sec_ok = TRUE

\* C1's case: a non-empty password was hashed and then verified.
C1_Witness ==
    pc = "sec_verified" /\ sec_try = sec_pw /\ Len(sec_pw) = MaxPwLen /\ sec_ok = TRUE

\* C2 as stated: a password different from the one hashed never verifies.
C2_OnlyTheHashedPassword ==
    (pc = "sec_verified" /\ sec_try # sec_pw) => sec_ok = FALSE

\* C2, amended: a password whose HMAC key differs from that of the password
\* hashed never verifies (the digest taken as collision-free).
C2_DifferentKeyRejected ==
    (pc = "sec_verified" /\ HmacKey(Encode(sec_try)) # HmacKey(Encode(sec_pw)))
        => sec_ok = FALSE

\* C2's case: a different password was tried and rejected.
C2_Witness ==
    /\ pc = "sec_verified"
    /\ sec_try # sec_pw
    /\ Len(sec_try) = Len(sec_pw)
    /\ sec_ok = FALSE

(***************************************************************************)
(* Validation: validate_email / validate_phone / validate_password /       *)
(* validate_price                                                          *)
(***************************************************************************)

\* A Python value: None, an int, or a str (a sequence of characters).
NoneValue == [type |-> "NoneType", val |-> <<>>]
IntValue(n) == [type |-> "int", val |-> <<n>>]    \* n: the digits, as text
Str(s) == [type |-> "str", val |-> s]

\* How a call ends: it returns a value or raises an exception.
Return(v) == [exc |-> None, ret |-> v]
Raise(e) == [exc |-> e, ret |-> None]

\* Character classes. "U+0662", "U+0663", "U+0667" are the Arabic-Indic
\* digits two, three and seven: decimal digits to \d, \D and str.isdigit.
Lower == {"a", "b", "c", "d", "e", "f", "g", "h", "i", "j", "k", "l", "m",
          "n", "o", "p", "q", "r", "s", "t", "u", "v", "w", "x", "y", "z"}
Upper == {"A", "B", "C", "D", "E", "F", "G", "H", "I", "J", "K", "L", "M",
          "N", "O", "P", "Q", "R", "S", "T", "U", "V", "W", "X", "Y", "Z"}
AsciiDigits == {"0", "1", "2", "3", "4", "5", "6", "7", "8", "9"}
ArabicDigits == {"U+0662", "U+0663", "U+0667"}
Digits == AsciiDigits \cup ArabicDigits
Whitespace == {" ", "\n", "\t"}

\* The value of a decimal digit.
DigitValue(c) ==
    CASE c = "0" -> 0 [] c = "1" -> 1 [] c = "2" -> 2 [] c = "3" -> 3
      [] c = "4" -> 4 [] c = "5" -> 5 [] c = "6" -> 6 [] c = "7" -> 7
      [] c = "8" -> 8 [] c = "9" -> 9
      [] c = "U+0662" -> 2 [] c = "U+0663" -> 3 [] c = "U+0667" -> 7

\* re.sub(pattern, '', s) for a pattern that matches one character of the
\* set `drop`: the characters of s that are not in it, in order.
RECURSIVE re_sub_remove(_, _)
re_sub_remove(drop, s) ==
    IF s = <<>> THEN <<>>
    ELSE IF Head(s) \in drop THEN re_sub_remove(drop, Tail(s))
    ELSE <<Head(s)>> \o re_sub_remove(drop, Tail(s))

\* The characters the model's strings are made of.
Alphabet ==
    {"a", "x", "A", "0", "1", "2", "3", "5", "6", "7", "8", "@", ".", "-", "+", "%",
     "_", "!", ",", " ", "\n"} \cup ArabicDigits

\* str.startswith.
startswith(s, prefix) ==
    Len(s) >= Len(prefix) /\ SubSeq(s, 1, Len(prefix)) = prefix

\* The pattern of validate_email, ^[a-zA-Z0-9._%+-]+@[a-zA-Z0-9.-]+\.[a-zA-Z]{2,}$
\* under re.match: $ matches at the end and before a newline that ends the text.
EmailLocalChars == Lower \cup Upper \cup AsciiDigits \cup {".", "_", "%", "+", "-"}
EmailDomainChars == Lower \cup Upper \cup AsciiDigits \cup {".", "-"}
EmailTldChars == Lower \cup Upper

EmailMatch(s) ==
    LET n == Len(s)
        ends == IF n > 0 /\ s[n] = "\n" THEN {n - 1, n} ELSE {n}
    IN  \E e \in ends, at \in 1..n, dot \in 1..n :
            /\ 1 < at /\ at + 1 < dot /\ dot + 2 <= e
            /\ \A k \in 1..(at - 1) : s[k] \in EmailLocalChars
            /\ s[at] = "@"
            /\ \A k \in (at + 1)..(dot - 1) : s[k] \in EmailDomainChars
            /\ s[dot] = "."
            /\ \A k \in (dot + 1)..e : s[k] \in EmailTldChars

\* ValidationUtils.validate_email(email): re.match raises TypeError when
\* the argument is no string.
validate_email(email) ==
    IF email.type # "str" THEN Raise("TypeError")
    ELSE Return(EmailMatch(email.val))

\* A bug for validate_phone: the country code of a 12-digit number is not checked.
validate_phone_any_prefix(phone) ==
    IF phone.type # "str" THEN Raise("TypeError")
    ELSE LET digits_only == re_sub_remove(Alphabet \ Digits, phone.val)
         IN  Return(Len(digits_only) = 12 \/ Len(digits_only) = 9)

\* ValidationUtils.validate_phone(phone): re.sub raises TypeError when the
\* argument is no string.
validate_phone(phone) ==
    IF phone.type # "str" THEN Raise("TypeError")
    ELSE LET digits_only == re_sub_remove(Alphabet \ Digits, phone.val)
         IN  IF Len(digits_only) = 12 /\ startswith(digits_only, <<"2", "3", "7">>)
             THEN Return(TRUE)
             ELSE IF Len(digits_only) = 9 THEN Return(TRUE)
             ELSE Return(FALSE)

\* The characters of [!@#$%^&*(),.?":{}|<>] that the alphabet holds.
SpecialChars == {"!", "@", "%", ",", "."}

\* ValidationUtils.validate_password(password): len() raises TypeError when
\* the argument has no length.
validate_password(password) ==
    IF password.type # "str" THEN Raise("TypeError")
    ELSE LET p == password.val
         IN  Return([length      |-> Len(p) >= 8,
                     has_upper   |-> \E i \in DOMAIN p : p[i] \in Upper,
                     has_lower   |-> \E i \in DOMAIN p : p[i] \in Lower,
                     has_digit   |-> \E i \in DOMAIN p : p[i] \in Digits,
                     has_special |-> \E i \in DOMAIN p : p[i] \in SpecialChars])

\* float(text) for the texts of the alphabet: an optional sign, digits with
\* at most one point and at least one digit; everything else is a ValueError
\* (the alphabet has no letter of an exponent, of "inf" or of "nan").  A
\* float is written [neg, digits, scale]: the number whose decimal digits
\* are `digits`, the last `scale` of them after the point, negated if neg.
float(text) ==
    LET signed == text # <<>> /\ Head(text) \in {"+", "-"}
        body == IF signed THEN Tail(text) ELSE text
        points == {i \in DOMAIN body : body[i] = "."}
        digits == re_sub_remove({"."}, body)
    IN  IF /\ \A i \in DOMAIN body : body[i] \in Digits \cup {"."}
           /\ Cardinality(points) <= 1
           /\ digits # <<>>
        THEN Return([neg    |-> signed /\ Head(text) = "-",
                     digits |-> [i \in DOMAIN digits |-> DigitValue(digits[i])],
                     scale  |-> IF points = {} THEN 0
                                ELSE Len(body) - (CHOOSE i \in points : TRUE)])
        ELSE Raise("ValueError")

\* x >= 0 for a float: it is not negated, or it is (minus) zero.
FloatGeZero(x) == ~x.neg \/ \A i \in DOMAIN x.digits : x.digits[i] = 0

\* ValidationUtils.validate_price(price_str): ValueError and TypeError are caught.
validate_price(price_str) ==
    IF price_str.type # "str" THEN Return(None)
    ELSE LET clean_price == re_sub_remove({","} \cup Whitespace, price_str.val)
             price == float(clean_price)
         IN  IF price.exc # None THEN Return(None)
             ELSE IF FloatGeZero(price.ret) THEN Return(price.ret) ELSE Return(None)

\* Longest run of one digit in a phone number, and of one character in a password.
MaxRun == 12
MaxPwdRun == 8

Cat3(a, b, c) == a \o b \o c

EmailTexts ==
    {Cat3(l \o a, d \o p, t \o z) :
        l \in {<<>>, <<"a">>, <<"a", "%", "1">>, <<"a", " ">>},
        a \in {<<>>, <<"@">>},
        d \in {<<>>, <<"x">>, <<"x", "-", "1">>, <<"x", "_">>},
        p \in {<<>>, <<".">>},
        t \in {<<>>, <<"a">>, <<"a", "A">>, <<"a", "1">>, <<"a", ".", "a", "x">>},
        z \in {<<>>, <<"\n">>, <<" ">>}}

PhoneTexts ==
    {Cat3(p, Rep("6", n), z) :
        p \in {<<>>, <<"2", "3", "7">>, <<"2", "3", "8">>, <<"+", "2", "3", "7", " ">>,
               <<"U+0662", "U+0663", "U+0667">>},
        n \in 0..MaxRun,
        z \in {<<>>, <<"-", "6">>, <<"x">>}}

PasswordTexts ==
    {Cat3(h, Rep(c, n), <<>>) :
        h \in {<<>>, <<"A">>, <<"1">>, <<"!">>, <<" ">>, <<"A", "1", "!">>},
        c \in {"a", "U+0663"},
        n \in 0..MaxPwdRun}

PriceTexts ==
    {Cat3(s, i \o p, f) :
        s \in {<<>>, <<"-">>, <<"+">>, <<"-", "-">>},
        i \in {<<>>, <<"0">>, <<"1">>, <<"1", ",", "0", "0">>, <<"1", " ", "5">>},
        p \in {<<>>, <<".">>, <<".", ".">>},
        f \in {<<>>, <<"5">>, <<"0", "5">>, <<"x">>}}

ValidationInputs ==
    {NoneValue, IntValue("5")}
        \cup {Str(s) : s \in EmailTexts \cup PhoneTexts \cup PasswordTexts \cup PriceTexts}

InitValidation ==
    /\ pc = "val_call"
    /\ val_in \in ValidationInputs
    /\ val_fn = None /\ val_out = None
    /\ SecIdle /\ RepIdle /\ CalcIdle /\ ExpIdle /\ DbIdle /\ FileIdle

ValidateEmail ==
    /\ pc = "val_call"
    /\ val_fn' = "validate_email"
    /\ val_out' = validate_email(val_in)
    /\ pc' = "val_done"
    /\ UNCHANGED <<val_in, secVars, repVars, calcVars, expVars, dbVars, fileVars>>

ValidatePhone ==
    /\ pc = "val_call"
    /\ val_fn' = "validate_phone"
    /\ val_out' = validate_phone(val_in)
    /\ pc' = "val_done"
    /\ UNCHANGED <<val_in, secVars, repVars, calcVars, expVars, dbVars, fileVars>>

ValidatePassword ==
    /\ pc = "val_call"
    /\ val_fn' = "validate_password"
    /\ val_out' = validate_password(val_in)
    /\ pc' = "val_done"
    /\ UNCHANGED <<val_in, secVars, repVars, calcVars, expVars, dbVars, fileVars>>

ValidatePrice ==
    /\ pc = "val_call"
    /\ val_fn' = "validate_price"
    /\ val_out' = validate_price(val_in)
    /\ pc' = "val_done"
    /\ UNCHANGED <<val_in, secVars, repVars, calcVars, expVars, dbVars, fileVars>>

NextValidation == ValidateEmail \/ ValidatePhone \/ ValidatePassword \/ ValidatePrice

SpecValidation == InitValidation /\ [][NextValidation]_vars

\* C3: no validation function raises, whatever it is given (None included):
\* every call ends by returning a value.
C3_ValidationNeverRaises ==
    pc = "val_done" => val_out.exc = None

\* The digits of a text, in order: the k-th is the digit at the position
\* that has k digit positions up to it.
C4_DigitsOf(s) ==
    LET P == {i \in DOMAIN s : s[i] \in Digits}
    IN  [k \in 1..Cardinality(P) |->
            s[CHOOSE i \in P : Cardinality({j \in P : j <= i}) = k]]

C4_Accepted(s) ==
    LET d == C4_DigitsOf(s)
    IN  \/ Len(d) = 9
        \/ Len(d) = 12 /\ d[1] = "2" /\ d[2] = "3" /\ d[3] = "7"

\* C4: validate_phone accepts a text exactly when, all non-digit characters
\* dropped, 9 digits remain, or 12 digits that begin with 237.
C4_PhoneAccepts ==
    (pc = "val_done" /\ val_fn = "validate_phone" /\ val_in.type = "str")
        => /\ val_out.exc = None
           /\ val_out.ret = C4_Accepted(val_in.val)

\* C4's case: a punctuated 12-digit number with the country code was accepted.
C4_Witness ==
    /\ pc = "val_done" /\ val_fn = "validate_phone"
    /\ val_in = Str(<<"+", "2", "3", "7", " ">> \o Rep("6", 9))
    /\ val_out = Return(TRUE)

\* C4's other cases: 12 digits with another prefix, and 5 digits, were rejected.
C4_WitnessRejected ==
    /\ pc = "val_done" /\ val_fn = "validate_phone"
    /\ val_in = Str(<<"2", "3", "8">> \o Rep("6", 9))
    /\ val_out = Return(FALSE)

(***************************************************************************)
(* Dates and times                                                         *)
(***************************************************************************)

\* A datetime is [y, m, d, secs]: a calendar date and the second of the day.
DateTime(y, m, d, secs) == [y |-> y, m |-> m, d |-> d, secs |-> secs]

IsLeap(y) == (y % 4 = 0 /\ y % 100 # 0) \/ y % 400 = 0

DaysInMonth(y, m) ==
    IF m = 2 THEN (IF IsLeap(y) THEN 29 ELSE 28)
    ELSE IF m \in {4, 6, 9, 11} THEN 30 ELSE 31

RECURSIVE DaysBeforeMonth(_, _)
DaysBeforeMonth(y, m) ==
    IF m = 1 THEN 0 ELSE DaysBeforeMonth(y, m - 1) + DaysInMonth(y, m - 1)

\* date.toordinal(): the number of the day, 1 being 1 January of year 1.
Ordinal(y, m, d) ==
    LET p == y - 1
    IN  365 * p + (p \div 4) - (p \div 100) + (p \div 400) + DaysBeforeMonth(y, m) + d

\* The years the model's dates lie in.
Years == 2024..2026

\* date.fromordinal(), within Years: the year, then the month, that day n
\* falls in, and the day of the month that is left.
FromOrdinal(n) ==
    LET y == CHOOSE y \in Years : Ordinal(y, 1, 1) <= n /\ n <= Ordinal(y, 12, 31)
        m == CHOOSE m \in 1..12 :
                 Ordinal(y, m, 1) <= n /\ n <= Ordinal(y, m, DaysInMonth(y, m))
    IN  <<y, m, n - Ordinal(y, m, 1) + 1>>

\* dt - datetime.timedelta(days=n).
MinusDays(dt, n) ==
    LET date == FromOrdinal(Ordinal(dt.y, dt.m, dt.d) - n)
    IN  DateTime(date[1], date[2], date[3], dt.secs)

\* a <= b for two datetimes.
DtLe(a, b) ==
    LET oa == Ordinal(a.y, a.m, a.d)
        ob == Ordinal(b.y, b.m, b.d)
    IN  oa < ob \/ (oa = ob /\ a.secs <= b.secs)

\* Text that holds numbers is a sequence of tokens: a number written with
\* w digits, or one other character.
Num(v, w) == [k |-> "num", v |-> v, w |-> w, c |-> ""]
Chr(c) == [k |-> "chr", v |-> 0, w |-> 0, c |-> c]

\* dt.isoformat(), to the second.
isoformat(dt) ==
    <<Num(dt.y, 4), Chr("-"), Num(dt.m, 2), Chr("-"), Num(dt.d, 2), Chr("T"),
      Num(dt.secs \div 3600, 2), Chr(":"), Num((dt.secs \div 60) % 60, 2), Chr(":"),
      Num(dt.secs % 60, 2)>>

\* dt.strftime('%d/%m/%Y').
strftime_dmY(dt) == <<Num(dt.d, 2), Chr("/"), Num(dt.m, 2), Chr("/"), Num(dt.y, 4)>>

\* What datetime.datetime.now() returns in the model's runs.
Clock == {DateTime(2025, 3, 1, 43200), DateTime(2025, 3, 2, 0)}

(***************************************************************************)
(* Reporting: generate_inventory_report                                    *)
(***************************************************************************)

\* A dict with a fixed set of possible keys is a record whose fields are
\* <<>> (the key is not in the dict) or <<v>> (the key maps to v).
\* dict.get(key, default):
Get(field, default) == IF field = <<>> THEN default ELSE field[1]

\* Longest list of records given to a report.
MaxLines == 2

\* Inventory lines: quantity, price and category may each be missing.
InventoryLines ==
    [quantity : {<<>>, <<0>>, <<9>>, <<10>>},
     price    : {<<>>, <<3>>},
     category : {<<>>, <<"Cement">>, <<"Unknown">>}]

\* A bug for LineValue: a missing price counts as 1.
LineValue_price_default_one(item) == Get(item.quantity, 0) * Get(item.price, 1)

\* item.get('quantity', 0) * item.get('price', 0)
LineValue(item) == Get(item.quantity, 0) * Get(item.price, 0)

\* sum(item.get('quantity', 0) * item.get('price', 0) for item in store_data)
RECURSIVE SumLineValues(_)
SumLineValues(store_data) ==
    IF store_data = <<>> THEN 0
    ELSE LineValue(Head(store_data)) + SumLineValues(Tail(store_data))

\* The fixed low-stock threshold.
LowStockThreshold == 10

\* A bug for LowStockItems: the threshold itself counts as low (<=).
RECURSIVE LowStockItems_inclusive(_)
LowStockItems_inclusive(store_data) ==
    IF store_data = <<>> THEN <<>>
    ELSE IF Get(Head(store_data).quantity, 0) <= LowStockThreshold
         THEN <<Head(store_data)>> \o LowStockItems_inclusive(Tail(store_data))
         ELSE LowStockItems_inclusive(Tail(store_data))

\* [item for item in store_data if item.get('quantity', 0) < 10]
RECURSIVE LowStockItems(_)
LowStockItems(store_data) ==
    IF store_data = <<>> THEN <<>>
    ELSE IF Get(Head(store_data).quantity, 0) < LowStockThreshold
         THEN <<Head(store_data)>> \o LowStockItems(Tail(store_data))
         ELSE LowStockItems(Tail(store_data))

\* A bug for CategoriesLoop: the entry is initialised without the test
\* `if category not in categories`, so a category seen again starts over.
RECURSIVE CategoriesLoop_always_init(_, _)
CategoriesLoop_always_init(store_data, categories) ==
    IF store_data = <<>> THEN categories
    ELSE LET item == Head(store_data)
             category == Get(item.category, "Unknown")
             entered == (category :> [count |-> 0, value |-> 0]) @@ categories
             counted == [entered EXCEPT ![category].count = @ + 1,
                                        ![category].value = @ + LineValue(item)]
         IN  CategoriesLoop_always_init(Tail(store_data), counted)

\* The loop that builds the categories dict: a function from the category
\* names seen so far to their count and value.
RECURSIVE CategoriesLoop(_, _)
CategoriesLoop(store_data, categories) ==
    IF store_data = <<>> THEN categories
    ELSE LET item == Head(store_data)
             category == Get(item.category, "Unknown")
             entered == IF category \notin DOMAIN categories
                        THEN categories @@ (category :> [count |-> 0, value |-> 0])
                        ELSE categories
             counted == [entered EXCEPT ![category].count = @ + 1,
                                        ![category].value = @ + LineValue(item)]
         IN  CategoriesLoop(Tail(store_data), counted)

\* The empty dict.
EmptyDict == [k \in {} |-> 0]

\* ReportUtils.generate_inventory_report(store_data), called at time now.
generate_inventory_report(store_data, now) ==
    LET low_stock_items == LowStockItems(store_data)
    IN  [total_items     |-> Len(store_data),
         total_value     |-> SumLineValues(store_data),
         low_stock_count |-> Len(low_stock_items),
         low_stock_items |-> low_stock_items,
         categories      |-> CategoriesLoop(store_data, EmptyDict),
         generated_date  |-> isoformat(now)]

InitInventory ==
    /\ pc = "inv_call"
    /\ rep_in \in SeqUpTo(InventoryLines, MaxLines)
    /\ rep_now \in Clock
    /\ rep_days = "None" /\ rep_out = "None"
    /\ SecIdle /\ ValIdle /\ CalcIdle /\ ExpIdle /\ DbIdle /\ FileIdle

GenerateInventoryReport ==
    /\ pc = "inv_call"
    /\ rep_out' = generate_inventory_report(rep_in, rep_now)
    /\ pc' = "inv_done"
    /\ UNCHANGED <<rep_in, rep_now, rep_days, secVars, valVars, calcVars, expVars, dbVars, fileVars>>

NextInventory == GenerateInventoryReport

SpecInventory == InitInventory /\ [][NextInventory]_vars

\* The quantity, price and category a line counts with: a missing quantity
\* or price counts as 0, a missing category as "Unknown".
ClaimQty(line) == IF Len(line.quantity) = 0 THEN 0 ELSE line.quantity[1]
ClaimPrice(line) == IF Len(line.price) = 0 THEN 0 ELSE line.price[1]
ClaimCategory(line) == IF Len(line.category) = 0 THEN "Unknown" ELSE line.category[1]

\* The sum of the values of a function with a finite domain.
RECURSIVE SumOf(_)
SumOf(f) ==
    IF DOMAIN f = {} THEN 0
    ELSE LET x == CHOOSE x \in DOMAIN f : TRUE
         IN  f[x] + SumOf([y \in DOMAIN f \ {x} |-> f[y]])

\* C5: total_items is the number of lines and total_value the sum over all
\* lines of quantity x price; the empty list gives 0, 0 and no category.
C5_InventoryTotals ==
    pc = "inv_done" =>
        /\ rep_out.total_items = Cardinality(DOMAIN rep_in)
        /\ rep_out.total_value =
               SumOf([i \in DOMAIN rep_in |-> ClaimQty(rep_in[i]) * ClaimPrice(rep_in[i])])
        /\ rep_in = <<>> =>
               /\ rep_out.total_items = 0
               /\ rep_out.total_value = 0
               /\ DOMAIN rep_out.categories = {}

\* C5's case: two lines with a value, one of them with no price.
C5_Witness ==
    /\ pc = "inv_done"
    /\ Len(rep_in) = 2
    /\ rep_in[1].price = <<>> /\ rep_in[1].quantity = <<9>>
    /\ rep_out.total_items = 2
    /\ rep_out.total_value = 30

\* C5's other case: the empty list.
C5_WitnessEmpty ==
    pc = "inv_done" /\ rep_in = <<>> /\ rep_out.total_items = 0

C7_LowStock ==
    pc = "inv_done" =>
        /\ rep_out.low_stock_items = SelectSeq(rep_in, LAMBDA line : ClaimQty(line) < 10)
        /\ rep_out.low_stock_count = Cardinality(DOMAIN rep_out.low_stock_items)

\* C7's case: a line of quantity 10 is not low-stock, a line with no
\* quantity is.
C7_Witness ==
    /\ pc = "inv_done"
    /\ Len(rep_in) = 2
    /\ rep_in[1].quantity = <<10>> /\ rep_in[2].quantity = <<>>
    /\ rep_out.low_stock_items = <<rep_in[2]>>
    /\ rep_out.low_stock_count = 1

(***************************************************************************)
(* Reporting: parse_date / generate_sales_report                           *)
(***************************************************************************)

\* The formats parse_date tries, in order: directives and literal characters.
DateFormats ==
    << <<"%Y", "-", "%m", "-", "%d">>,
       <<"%d", "/", "%m", "/", "%Y">>,
       <<"%m", "/", "%d", "/", "%Y">>,
       <<"%Y", "-", "%m", "-", "%d", " ", "%H", ":", "%M", ":", "%S">> >>

Directives == {"%Y", "%m", "%d", "%H", "%M", "%S"}

\* Whether a token of the text matches an item of the format: a literal
\* character matches itself; %Y is a number of four digits, the other
\* directives a number of one or two digits within the directive's range.
ItemMatches(tok, item) ==
    IF item \notin Directives THEN tok = Chr(item)
    ELSE /\ tok.k = "num"
         /\ CASE item = "%Y" -> tok.w = 4
              [] item = "%m" -> tok.w \in 1..2 /\ tok.v \in 1..12
              [] item = "%d" -> tok.w \in 1..2 /\ tok.v \in 1..31
              [] item = "%H" -> tok.w \in 1..2 /\ tok.v \in 0..23
              [] item = "%M" -> tok.w \in 1..2 /\ tok.v \in 0..59
              [] item = "%S" -> tok.w \in 1..2 /\ tok.v \in 0..61

\* The number the text gives for a directive, or the default when the
\* format does not hold the directive.
Field(text, fmt, directive, default) ==
    IF \E i \in DOMAIN fmt : fmt[i] = directive
    THEN text[CHOOSE i \in DOMAIN fmt : fmt[i] = directive].v
    ELSE default

\* datetime.datetime.strptime(text, fmt): the whole text must match the
\* format, and the numbers must make a date and a time that exist.
strptime(text, fmt) ==
    IF /\ Len(text) = Len(fmt)
       /\ \A i \in DOMAIN fmt : ItemMatches(text[i], fmt[i])
    THEN LET y == Field(text, fmt, "%Y", 1900)
             m == Field(text, fmt, "%m", 1)
             d == Field(text, fmt, "%d", 1)
             H == Field(text, fmt, "%H", 0)
             M == Field(text, fmt, "%M", 0)
             S == Field(text, fmt, "%S", 0)
         IN  IF y >= 1 /\ d <= DaysInMonth(y, m) /\ S <= 59
             THEN Return(DateTime(y, m, d, 3600 * H + 60 * M + S))
             ELSE Raise("ValueError")
    ELSE Raise("ValueError")

\* The loop of parse_date over formats[i..]: the first format that parses
\* the text gives the result; None (<<>>) when none does.
RECURSIVE ParseLoop(_, _)
ParseLoop(date_str, i) ==
    IF i > Len(DateFormats) THEN NoValue
    ELSE LET r == strptime(date_str, DateFormats[i])
         IN  IF r.exc = None THEN Some(r.ret) ELSE ParseLoop(date_str, i + 1)

\* DateTimeUtils.parse_date(date_str): Optional[datetime].
parse_date(date_str) == ParseLoop(date_str, 1)

\* DateTimeUtils.format_date(date_obj) of a datetime, format '%d/%m/%Y'.
format_date(date_obj) == strftime_dmY(date_obj)

\* Texts of dates that parse: 2025-03-01, 28/02/2025, 03/02/2025 (3 February:
\* day first), 2025-03-02 00:00:00, 01/30/2025 (30 January: month first).
GoodDateTexts ==
    { <<Num(2025, 4), Chr("-"), Num(3, 2), Chr("-"), Num(1, 2)>>,
      <<Num(28, 2), Chr("/"), Num(2, 2), Chr("/"), Num(2025, 4)>>,
      <<Num(3, 2), Chr("/"), Num(2, 2), Chr("/"), Num(2025, 4)>>,
      <<Num(2025, 4), Chr("-"), Num(3, 2), Chr("-"), Num(2, 2), Chr(" "),
        Num(0, 2), Chr(":"), Num(0, 2), Chr(":"), Num(0, 2)>>,
      <<Num(1, 2), Chr("/"), Num(30, 2), Chr("/"), Num(2025, 4)>> }

\* Texts that are no date to parse_date: 31/02/2025, and
\* 2025-03-01 12:00:00.5 (a datetime printed with a fraction of a second).
\* (The empty text is what a transaction with no date is parsed as.)
BadDateTexts ==
    { <<Num(31, 2), Chr("/"), Num(2, 2), Chr("/"), Num(2025, 4)>>,
      <<Num(2025, 4), Chr("-"), Num(3, 2), Chr("-"), Num(1, 2), Chr(" "),
        Num(12, 2), Chr(":"), Num(0, 2), Chr(":"), Num(0, 2), Chr("."), Num(5, 1)>> }

\* Longest list of transactions given to the sales report.
MaxTrans == 2

\* Transactions: transaction_date and total_amount may each be missing.
Transactions ==
    [transaction_date : {<<>>} \cup {<<t>> : t \in GoodDateTexts \cup BadDateTexts},
     total_amount     : {<<>>, <<5>>, <<8>>}]

\* The values of period_days.
Periods == {1, 30}

\* A bug for PeriodTransactions: a transaction with no date that parses is kept.
RECURSIVE PeriodTransactions_keep_undated(_, _, _)
PeriodTransactions_keep_undated(transactions, start_date, end_date) ==
    IF transactions = <<>> THEN <<>>
    ELSE LET trans == Head(transactions)
             trans_date == parse_date(Get(trans.transaction_date, <<>>))
             rest == PeriodTransactions_keep_undated(Tail(transactions), start_date, end_date)
         IN  IF \/ trans_date = NoValue
                \/ DtLe(start_date, trans_date[1]) /\ DtLe(trans_date[1], end_date)
             THEN <<trans>> \o rest
             ELSE rest

\* A bug for PeriodTransactions: the end of the window is not checked.
RECURSIVE PeriodTransactions_no_end(_, _, _)
PeriodTransactions_no_end(transactions, start_date, end_date) ==
    IF transactions = <<>> THEN <<>>
    ELSE LET trans == Head(transactions)
             trans_date == parse_date(Get(trans.transaction_date, <<>>))
             rest == PeriodTransactions_no_end(Tail(transactions), start_date, end_date)
         IN  IF trans_date # NoValue /\ DtLe(start_date, trans_date[1])
             THEN <<trans>> \o rest
             ELSE rest

\* The first loop of generate_sales_report: the transactions whose date
\* parses (a datetime is always true) and lies in start_date..end_date.
RECURSIVE PeriodTransactions(_, _, _)
PeriodTransactions(transactions, start_date, end_date) ==
    IF transactions = <<>> THEN <<>>
    ELSE LET trans == Head(transactions)
             trans_date == parse_date(Get(trans.transaction_date, <<>>))
             rest == PeriodTransactions(Tail(transactions), start_date, end_date)
         IN  IF /\ trans_date # NoValue
                /\ DtLe(start_date, trans_date[1]) /\ DtLe(trans_date[1], end_date)
             THEN <<trans>> \o rest
             ELSE rest

\* sum(trans.get('total_amount', 0) for trans in period_transactions)
RECURSIVE SumAmounts(_)
SumAmounts(transactions) ==
    IF transactions = <<>> THEN 0
    ELSE Get(Head(transactions).total_amount, 0) + SumAmounts(Tail(transactions))

RECURSIVE Gcd(_, _)
Gcd(a, b) == IF b = 0 THEN a ELSE Gcd(b, a % b)

\* A bug for TrueDiv: integer division (//).
TrueDiv_floor(a, b) == [num |-> a \div b, den |-> 1]

\* a / b for b > 0: the quotient, as a fraction in lowest terms (the float
\* Python computes, without its rounding).
TrueDiv(a, b) == [num |-> a \div Gcd(a, b), den |-> b \div Gcd(a, b)]

\* The number 0.
Zero == [num |-> 0, den |-> 1]

\* A bug for DailySalesLoop: the entry of a day is set anew for each
\* transaction of that day.
RECURSIVE DailySalesLoop_entry_reset(_, _)
DailySalesLoop_entry_reset(period_transactions, daily_sales) ==
    IF period_transactions = <<>> THEN daily_sales
    ELSE LET trans == Head(period_transactions)
             parsed == parse_date(Get(trans.transaction_date, <<>>))
         IN  IF parsed = NoValue
             THEN DailySalesLoop_entry_reset(Tail(period_transactions), daily_sales)
             ELSE LET date_key == format_date(parsed[1])
                      entered == [k \in DOMAIN daily_sales \ {date_key} |-> daily_sales[k]]
                                     @@ (date_key :> [count |-> 0, revenue |-> 0])
                      counted == [entered EXCEPT
                                     ![date_key].count = @ + 1,
                                     ![date_key].revenue = @ + Get(trans.total_amount, 0)]
                  IN  DailySalesLoop_entry_reset(Tail(period_transactions), counted)

\* The second loop of generate_sales_report: the transactions grouped by
\* the day of their date, each day with its count and revenue.
RECURSIVE DailySalesLoop(_, _)
DailySalesLoop(period_transactions, daily_sales) ==
    IF period_transactions = <<>> THEN daily_sales
    ELSE LET trans == Head(period_transactions)
             parsed == parse_date(Get(trans.transaction_date, <<>>))
         IN  IF parsed = NoValue
             THEN DailySalesLoop(Tail(period_transactions), daily_sales)
             ELSE LET date_key == format_date(parsed[1])
                      entered == IF date_key \notin DOMAIN daily_sales
                                 THEN daily_sales @@ (date_key :> [count |-> 0, revenue |-> 0])
                                 ELSE daily_sales
                      counted == [entered EXCEPT
                                     ![date_key].count = @ + 1,
                                     ![date_key].revenue = @ + Get(trans.total_amount, 0)]
                  IN  DailySalesLoop(Tail(period_transactions), counted)

\* ReportUtils.generate_sales_report(transactions, period_days), called at
\* time now.
generate_sales_report(transactions, period_days, now) ==
    LET end_date == now
        start_date == MinusDays(end_date, period_days)
        period_transactions == PeriodTransactions(transactions, start_date, end_date)
        total_sales == Len(period_transactions)
        total_revenue == SumAmounts(period_transactions)
        avg_sale == IF total_sales > 0 THEN TrueDiv(total_revenue, total_sales) ELSE Zero
    IN  [period_days     |-> period_days,
         start_date      |-> strftime_dmY(start_date),
         end_date        |-> strftime_dmY(end_date),
         total_sales     |-> total_sales,
         total_revenue   |-> total_revenue,
         average_sale    |-> avg_sale,
         daily_breakdown |-> DailySalesLoop(period_transactions, EmptyDict)]

InitSales ==
    /\ pc = "sales_call"
    /\ rep_in \in SeqUpTo(Transactions, MaxTrans)
    /\ rep_now \in Clock
    /\ rep_days \in Periods
    /\ rep_out = "None"
    /\ SecIdle /\ ValIdle /\ CalcIdle /\ ExpIdle /\ DbIdle /\ FileIdle

GenerateSalesReport ==
    /\ pc = "sales_call"
    /\ rep_out' = generate_sales_report(rep_in, rep_days, rep_now)
    /\ pc' = "sales_done"
    /\ UNCHANGED <<rep_in, rep_now, rep_days, secVars, valVars, calcVars, expVars, dbVars, fileVars>>

NextSales == GenerateSalesReport

SpecSales == InitSales /\ [][NextSales]_vars

\* A moment as <<day number, second of the day>>, and their order.
ClaimStamp(dt) == <<Ordinal(dt.y, dt.m, dt.d), dt.secs>>
ClaimNotAfter(a, b) == a[1] < b[1] \/ (a[1] = b[1] /\ a[2] <= b[2])

\* The date a transaction is parsed to (<<>> if none), and whether it lies
\* in the window of `days` days that ends at `now`.
ClaimDate(tx) ==
    IF Len(tx.transaction_date) = 0 THEN <<>> ELSE parse_date(tx.transaction_date[1])
ClaimInWindow(tx, days, now) ==
    /\ ClaimDate(tx) # <<>>
    /\ ClaimNotAfter(<<ClaimStamp(now)[1] - days, now.secs>>, ClaimStamp(ClaimDate(tx)[1]))
    /\ ClaimNotAfter(ClaimStamp(ClaimDate(tx)[1]), ClaimStamp(now))
ClaimAmount(tx) == IF Len(tx.total_amount) = 0 THEN 0 ELSE tx.total_amount[1]

\* C8: a transaction is counted exactly when its date lies in the window
\* start <= date <= now: total_sales, total_revenue and the daily breakdown
\* count the transactions in the window and no other (none older, none in
\* the future).
C8_TrailingWindow ==
    pc = "sales_done" =>
        LET W == {i \in DOMAIN rep_in : ClaimInWindow(rep_in[i], rep_days, rep_now)}
            days == rep_out.daily_breakdown
        IN  /\ rep_out.total_sales = Cardinality(W)
            /\ rep_out.total_revenue = SumOf([i \in W |-> ClaimAmount(rep_in[i])])
            /\ DOMAIN days = {strftime_dmY(ClaimDate(rep_in[i])[1]) : i \in W}
            /\ SumOf([k \in DOMAIN days |-> days[k].count]) = Cardinality(W)
            /\ SumOf([k \in DOMAIN days |-> days[k].revenue])
                   = SumOf([i \in W |-> ClaimAmount(rep_in[i])])

\* C8's case: of two dated transactions, one lies in the window and is
\* counted, the other is dated after now and is not.
C8_Witness ==
    /\ pc = "sales_done"
    /\ Len(rep_in) = 2
    /\ ClaimInWindow(rep_in[1], rep_days, rep_now)
    /\ ClaimDate(rep_in[2]) # <<>>
    /\ ~ClaimNotAfter(ClaimStamp(ClaimDate(rep_in[2])[1]), ClaimStamp(rep_now))
    /\ rep_out.total_sales = 1
    /\ rep_out.total_revenue = ClaimAmount(rep_in[1])

\* C8's other case: a transaction dated on the day the window starts, but
\* earlier in the day than the window, is older than the window.
C8_WitnessOlder ==
    /\ pc = "sales_done"
    /\ Len(rep_in) = 1
    /\ ClaimDate(rep_in[1]) # <<>>
    /\ ClaimStamp(ClaimDate(rep_in[1])[1])[1] = ClaimStamp(rep_now)[1] - rep_days
    /\ rep_out.total_sales = 0

\* A transaction with no date, or with a text that is no date.
ClaimUndated(tx) ==
    Len(tx.transaction_date) = 0 \/ tx.transaction_date[1] \in BadDateTexts

\* C9: a transaction whose date is missing or cannot be parsed is left out
\* and changes nothing: the report is the report of the other transactions.
C9_UndatedExcluded ==
    pc = "sales_done" =>
        rep_out = generate_sales_report(
                      SelectSeq(rep_in, LAMBDA tx : ~ClaimUndated(tx)), rep_days, rep_now)

\* C9's case: a transaction with a text that is no date, with an amount,
\* beside a transaction that is counted.
C9_Witness ==
    /\ pc = "sales_done"
    /\ Len(rep_in) = 2
    /\ Len(rep_in[1].transaction_date) = 1
    /\ rep_in[1].transaction_date[1] \in BadDateTexts
    /\ rep_in[1].total_amount = <<8>>
    /\ rep_in[2].total_amount = <<5>>
    /\ rep_out.total_sales = 1
    /\ rep_out.total_revenue = 5
    /\ rep_out.average_sale = [num |-> 5, den |-> 1]
    /\ Cardinality(DOMAIN rep_out.daily_breakdown) = 1

\* C9's other case: a transaction with no date at all.
C9_WitnessMissing ==
    /\ pc = "sales_done"
    /\ Len(rep_in) = 2
    /\ rep_in[1].transaction_date = <<>> /\ rep_in[1].total_amount = <<8>>
    /\ rep_out.total_sales = 1
    /\ rep_out.total_revenue = 5

\* C10: average_sale is 0 when no transaction falls in the period, and
\* total_revenue / total_sales otherwise.
C10_AverageSale ==
    pc = "sales_done" =>
        IF rep_out.total_sales = 0
        THEN rep_out.average_sale.num = 0
        ELSE /\ rep_out.average_sale.den > 0
             /\ rep_out.average_sale.num * rep_out.total_sales
                    = rep_out.total_revenue * rep_out.average_sale.den

\* C10's case: two sales of 5 and 8, average 13/2.
C10_Witness ==
    /\ pc = "sales_done"
    /\ rep_out.total_sales = 2
    /\ rep_out.total_revenue = 13
    /\ rep_out.average_sale = [num |-> 13, den |-> 2]

\* C10's other case: transactions are given, none falls in the period.
C10_WitnessNone ==
    /\ pc = "sales_done"
    /\ Len(rep_in) = 2
    /\ rep_out.total_sales = 0
    /\ rep_out.average_sale.num = 0

(***************************************************************************)
(* Calculation: calculate_percentage_change, calculate_material_requirements *)
(*                                                                         *)
(* A number is a fraction in lowest terms with a positive denominator: the *)
(* float Python computes, without its rounding.                            *)
(***************************************************************************)

Abs(n) == IF n < 0 THEN -n ELSE n

\* The number n / d, d # 0.
Frac(n, d) ==
    LET g == Gcd(Abs(n), Abs(d))
    IN  [num |-> (IF d < 0 THEN -n ELSE n) \div g, den |-> Abs(d) \div g]

\* a + b, a - b, a * b, and a / b for b # 0.
Add(a, b) == Frac(a.num * b.den + b.num * a.den, a.den * b.den)
Sub(a, b) == Frac(a.num * b.den - b.num * a.den, a.den * b.den)
Mul(a, b) == Frac(a.num * b.num, a.den * b.den)
Div(a, b) == Frac(a.num * b.den, a.den * b.num)

\* The numbers 1 and 100.
One == [num |-> 1, den |-> 1]
Hundred == [num |-> 100, den |-> 1]

\* A bug for calculate_percentage_change: 0.0 whenever the old value is 0.
calculate_percentage_change_zero_old(old_value, new_value) ==
    IF old_value = Zero
    THEN Zero
    ELSE Mul(Div(Sub(new_value, old_value), old_value), Hundred)

\* CalculationUtils.calculate_percentage_change(old_value, new_value).
calculate_percentage_change(old_value, new_value) ==
    IF old_value = Zero
    THEN IF new_value # Zero THEN Hundred ELSE Zero
    ELSE Mul(Div(Sub(new_value, old_value), old_value), Hundred)

\* A bug for calculate_material_requirements: the waste is not added to the
\* basic requirement, it replaces it.
calculate_material_requirements_waste_only(area, material_coverage, waste_factor) ==
    IF material_coverage = Zero
    THEN Zero
    ELSE LET basic_requirement == Div(area, material_coverage)
             with_waste == Mul(basic_requirement, waste_factor)
         IN  with_waste

\* CalculationUtils.calculate_material_requirements(area, material_coverage,
\* waste_factor).
calculate_material_requirements(area, material_coverage, waste_factor) ==
    IF material_coverage = Zero
    THEN Zero
    ELSE LET basic_requirement == Div(area, material_coverage)
             with_waste == Mul(basic_requirement, Add(One, waste_factor))
         IN  with_waste

\* The arguments tried: the integers up to MaxNum either side of 0, the
\* halves between them, and the values 5, 100 and 150.
MaxNum == 2
CalcNumbers ==
    {Frac(n, d) : n \in (-2 * MaxNum) .. (2 * MaxNum), d \in {1, 2}}
        \cup {Frac(5, 1), Frac(100, 1), Frac(150, 1)}

\* The waste factors tried: none, the default 0.1, a half, and a negative one.
WasteFactors == {Zero, Frac(1, 10), Frac(1, 2), Frac(-1, 4)}

InitCalculation ==
    /\ pc = "calc_start"
    /\ calc_fn = None
    /\ calc_in \in (CalcNumbers \X CalcNumbers)
                       \cup (CalcNumbers \X CalcNumbers \X WasteFactors)
    /\ calc_out = None
    /\ SecIdle /\ ValIdle /\ RepIdle /\ ExpIdle /\ DbIdle /\ FileIdle

CalculatePercentageChange ==
    /\ pc = "calc_start"
    /\ Len(calc_in) = 2
    /\ calc_fn' = "calculate_percentage_change"
    /\ calc_out' = calculate_percentage_change(calc_in[1], calc_in[2])
    /\ pc' = "calc_done"
    /\ UNCHANGED <<calc_in, secVars, valVars, repVars, expVars, dbVars, fileVars>>

CalculateMaterialRequirements ==
    /\ pc = "calc_start"
    /\ Len(calc_in) = 3
    /\ calc_fn' = "calculate_material_requirements"
    /\ calc_out' = calculate_material_requirements(calc_in[1], calc_in[2], calc_in[3])
    /\ pc' = "calc_done"
    /\ UNCHANGED <<calc_in, secVars, valVars, repVars, expVars, dbVars, fileVars>>

NextCalculation == CalculatePercentageChange \/ CalculateMaterialRequirements

SpecCalculation == InitCalculation /\ [][NextCalculation]_vars

\* The integer n as a number of the claims.
ClaimNum(n) == [num |-> n, den |-> 1]

\* C11: calculate_percentage_change(old, new) is 100 when old is 0 and new
\* is not, 0 when both are 0, and otherwise the number r with
\* r * old = (new - old) * 100; (0,0) gives 0, (0,5) gives 100 and (100,150)
\* gives 50.
C11_PercentageChange ==
    (pc = "calc_done" /\ calc_fn = "calculate_percentage_change") =>
        LET old == calc_in[1]
            new == calc_in[2]
            r   == calc_out
        IN  /\ r.den > 0
            /\ IF old.num = 0
               THEN r = ClaimNum(IF new.num = 0 THEN 0 ELSE 100)
               ELSE r.num * old.num * new.den
                        = 100 * (new.num * old.den - old.num * new.den) * r.den
            /\ (old = ClaimNum(0) /\ new = ClaimNum(0)) => r = ClaimNum(0)
            /\ (old = ClaimNum(0) /\ new = ClaimNum(5)) => r = ClaimNum(100)
            /\ (old = ClaimNum(100) /\ new = ClaimNum(150)) => r = ClaimNum(50)

\* C11's case: the change from 100 to 150 was computed.
C11_Witness ==
    /\ pc = "calc_done" /\ calc_fn = "calculate_percentage_change"
    /\ calc_in = <<ClaimNum(100), ClaimNum(150)>>
    /\ calc_out = ClaimNum(50)

\* C11's other case: the old value is 0 and the new one is 5.
C11_WitnessZeroOld ==
    /\ pc = "calc_done" /\ calc_fn = "calculate_percentage_change"
    /\ calc_in = <<ClaimNum(0), ClaimNum(5)>>
    /\ calc_out = ClaimNum(100)

\* C12: calculate_material_requirements(area, coverage, waste_factor) is 0
\* when coverage is 0, and otherwise the number r with
\* r * coverage = area * (1 + waste_factor); with waste_factor 0 it is
\* area / coverage.
C12_MaterialRequirements ==
    (pc = "calc_done" /\ calc_fn = "calculate_material_requirements") =>
        LET area     == calc_in[1]
            coverage == calc_in[2]
            waste    == calc_in[3]
            r        == calc_out
        IN  /\ r.den > 0
            /\ IF coverage.num = 0
               THEN r = ClaimNum(0)
               ELSE /\ r.num * coverage.num * area.den * waste.den
                          = area.num * (waste.den + waste.num) * r.den * coverage.den
                    /\ waste.num = 0 =>
                          r.num * coverage.num * area.den = area.num * r.den * coverage.den

\* C12's case: area 5 over coverage 2 with no waste gives 5/2.
C12_Witness ==
    /\ pc = "calc_done" /\ calc_fn = "calculate_material_requirements"
    /\ calc_in = <<ClaimNum(5), ClaimNum(2), ClaimNum(0)>>
    /\ calc_out = [num |-> 5, den |-> 2]

\* C12's other case: the coverage is 0 and the area is not.
C12_WitnessZeroCoverage ==
    /\ pc = "calc_done" /\ calc_fn = "calculate_material_requirements"
    /\ calc_in[1] = ClaimNum(5) /\ calc_in[2] = ClaimNum(0)
    /\ calc_out = ClaimNum(0)

(***************************************************************************)
(* Export: export_to_csv / export_to_json                                  *)
(*                                                                         *)
(* A record (a dict) is the sequence of its items, in insertion order; a   *)
(* text is a sequence of tokens (Chr, Num); a file is the text written to  *)
(* it.                                                                     *)
(***************************************************************************)

\* The text of a sequence of characters.
Text(cs) == [i \in 1..Len(cs) |-> Chr(cs[i])]

\* The texts given, one after the other.
RECURSIVE Concat(_)
Concat(texts) == IF texts = <<>> THEN <<>> ELSE Head(texts) \o Concat(Tail(texts))

\* The values of a record's fields: str, int, bool, None, datetime.date.
PyStr(text) == [type |-> "str", val |-> text]
PyInt(n) == [type |-> "int", val |-> <<Num(n, 0)>>]
PyBool(b) == [type |-> "bool", val |-> <<Num(IF b THEN 1 ELSE 0, 0)>>]
PyNone == [type |-> "NoneType", val |-> <<>>]
PyDate(y, m, d) == [type |-> "date", val |-> <<Num(y, 4), Num(m, 2), Num(d, 2)>>]

\* One item of a dict.
Item(key, value) == [key |-> key, value |-> value]

\* str(o).
str(o) ==
    CASE o.type = "str" -> o.val
      [] o.type = "int" -> o.val
      [] o.type = "bool" -> IF o.val[1].v = 1 THEN Text(<<"T", "r", "u", "e">>)
                            ELSE Text(<<"F", "a", "l", "s", "e">>)
      [] o.type = "NoneType" -> Text(<<"N", "o", "n", "e">>)
      [] o.type = "date" -> <<o.val[1], Chr("-"), o.val[2], Chr("-"), o.val[3]>>

\* A lone surrogate: a character of a str that UTF-8 cannot encode.
Surrogate == Chr("U+D800")

\* The exceptions the calls made can raise, all of them subclasses of
\* Exception: open() on a path that cannot be written, write() of a text
\* with a lone surrogate, DictWriter on a field that is not in the header.
PermissionError == "PermissionError"
UnicodeEncodeError == "UnicodeEncodeError"
ValueError == "ValueError"

\* A bug for the except clauses: only failures of the file system are caught.
except_OSError(exc) == exc = PermissionError

\* except Exception: whether the clause catches exc.
except_Exception(exc) == exc \in {PermissionError, UnicodeEncodeError, ValueError}

\* What a file name refers to: no file, or a file holding a text.
NoFile == [exists |-> FALSE, text |-> <<>>]
File(text) == [exists |-> TRUE, text |-> text]

\* open(filename, 'w', encoding='utf-8'): the file is created or emptied,
\* or the call raises and the file system is left as it was.
open_w(path, file) ==
    IF path = "writable" THEN [exc |-> None, file |-> File(<<>>)]
    ELSE [exc |-> PermissionError, file |-> file]

\* file.write(chunk) for each chunk in turn: a chunk UTF-8 cannot encode
\* raises and is not written; what was written before stays in the file.
RECURSIVE write_all(_, _)
write_all(chunks, file) ==
    IF chunks = <<>> THEN [exc |-> None, file |-> file]
    ELSE IF \E i \in 1..Len(Head(chunks)) : Head(chunks)[i] = Surrogate
    THEN [exc |-> UnicodeEncodeError, file |-> file]
    ELSE write_all(Tail(chunks), File(file.text \o Head(chunks)))

\* json.encoder: the escapes of a character inside a JSON string
\* (ensure_ascii=False: only the quote, the backslash and control characters
\* are escaped).
EscapeChar(tok) ==
    CASE tok = Chr("\"") -> <<Chr("\\"), Chr("\"")>>
      [] tok = Chr("\\") -> <<Chr("\\"), Chr("\\")>>
      [] tok = Chr("\n") -> <<Chr("\\"), Chr("n")>>
      [] tok = Chr("\t") -> <<Chr("\\"), Chr("t")>>
      [] OTHER -> <<tok>>

\* json.encoder.py_encode_basestring(s): s as a JSON string.
py_encode_basestring(s) ==
    <<Chr("\"")>> \o Concat([i \in 1..Len(s) |-> EscapeChar(s[i])]) \o <<Chr("\"")>>

\* The chunk json writes for a value that is not a list or a dict; a value
\* json cannot serialize is given to default=str first.
EncodeValue(o) ==
    CASE o.type = "str" -> py_encode_basestring(o.val)
      [] o.type = "NoneType" -> Text(<<"n", "u", "l", "l">>)
      [] o.type = "bool" -> IF o.val[1].v = 1 THEN Text(<<"t", "r", "u", "e">>)
                            ELSE Text(<<"f", "a", "l", "s", "e">>)
      [] o.type = "int" -> o.val
      [] OTHER -> py_encode_basestring(str(o))

\* indent=2: a new line and the indentation of a nesting level.
newline_indent(level) == <<Chr("\n")>> \o Rep(Chr(" "), 2 * level)

\* json.encoder._iterencode_dict: the chunks of the items from the i-th on.
RECURSIVE DictItemChunks(_, _, _)
DictItemChunks(dct, i, level) ==
    IF i > Len(dct) THEN <<>>
    ELSE (IF i = 1 THEN <<>> ELSE <<<<Chr(",")>> \o newline_indent(level)>>)
         \o <<py_encode_basestring(dct[i].key), <<Chr(":"), Chr(" ")>>,
              EncodeValue(dct[i].value)>>
         \o DictItemChunks(dct, i + 1, level)

\* json.encoder._iterencode_dict(dct, level): the chunks of a dict.
iterencode_dict(dct, level) ==
    IF dct = <<>> THEN << <<Chr("{"), Chr("}")>> >>
    ELSE << <<Chr("{")>>, newline_indent(level + 1) >>
         \o DictItemChunks(dct, 1, level + 1)
         \o << newline_indent(level), <<Chr("}")>> >>

\* json.encoder._iterencode_list: the chunks of the values from the i-th on.
RECURSIVE ListValueChunks(_, _, _)
ListValueChunks(lst, i, level) ==
    IF i > Len(lst) THEN <<>>
    ELSE << (IF i = 1 THEN <<Chr("[")>> ELSE <<Chr(",")>>) \o newline_indent(level) >>
         \o iterencode_dict(lst[i], level)
         \o ListValueChunks(lst, i + 1, level)

\* json.encoder._iterencode_list(lst, level): the chunks of a list of dicts.
iterencode_list(lst, level) ==
    IF lst = <<>> THEN << <<Chr("["), Chr("]")>> >>
    ELSE ListValueChunks(lst, 1, level + 1) \o << newline_indent(level), <<Chr("]")>> >>

\* json.dump(data, jsonfile, indent=2, ensure_ascii=False, default=str):
\* every chunk is written as it is produced.
json_dump(data, jsonfile) == write_all(iterencode_list(data, 0), jsonfile)

\* A bug for export_to_json: True is returned whatever happened.
export_to_json_always_true(data, path, file) ==
    LET opened == open_w(path, file)
        dumped == IF opened.exc # None THEN opened ELSE json_dump(data, opened.file)
    IN  [out |-> Return(TRUE), file |-> dumped.file]

\* DataExportUtils.export_to_json(data, filename): how the call ends and the
\* file it leaves; path is whether filename can be opened for writing, file
\* is what filename refers to before the call.
export_to_json(data, path, file) ==
    LET opened == open_w(path, file)
        dumped == IF opened.exc # None THEN opened ELSE json_dump(data, opened.file)
    IN  [out  |-> IF dumped.exc = None THEN Return(TRUE)
                  ELSE IF except_Exception(dumped.exc) THEN Return(FALSE)
                  ELSE Raise(dumped.exc),
         file |-> dumped.file]

\* csv.writer, QUOTE_MINIMAL: a field is quoted if it holds the delimiter,
\* the quote character or a character of the line terminator.
NeedsQuotes(field) ==
    \E i \in 1..Len(field) : field[i] \in {Chr(","), Chr("\""), Chr("\r"), Chr("\n")}

\* A field between quotes, its own quotes doubled.
QuoteField(field) ==
    <<Chr("\"")>>
    \o Concat([i \in 1..Len(field) |->
                  IF field[i] = Chr("\"") THEN <<Chr("\""), Chr("\"")>> ELSE <<field[i]>>])
    \o <<Chr("\"")>>

\* The text csv.writer writes for a value: nothing for None, str() otherwise.
csv_field(o) == IF o.type = "NoneType" THEN <<>> ELSE str(o)

\* The fields from the i-th on, with the delimiter between them.
RECURSIVE JoinFields(_, _)
JoinFields(fields, i) ==
    IF i > Len(fields) THEN <<>>
    ELSE (IF i = 1 THEN <<>> ELSE <<Chr(",")>>)
         \o (IF NeedsQuotes(fields[i]) THEN QuoteField(fields[i]) ELSE fields[i])
         \o JoinFields(fields, i + 1)

\* csv.writer.writerow(row): the line written; a row that is one empty
\* field is written as "".
csv_line(fields) ==
    (IF Len(fields) = 1 /\ fields[1] = <<>> THEN <<Chr("\""), Chr("\"")>>
     ELSE JoinFields(fields, 1))
    \o <<Chr("\r"), Chr("\n")>>

\* list(d.keys()).
keys(d) == [i \in 1..Len(d) |-> d[i].key]

\* Whether a key is among the field names.
InFieldnames(key, fieldnames) == \E j \in 1..Len(fieldnames) : fieldnames[j] = key

\* rowdict.get(key, restval), restval being ''.
RowGet(rowdict, key) ==
    IF \E i \in 1..Len(rowdict) : rowdict[i].key = key
    THEN rowdict[CHOOSE i \in 1..Len(rowdict) : rowdict[i].key = key].value
    ELSE PyStr(<<>>)

\* csv.DictWriter._dict_to_list(rowdict): the values in the order of the
\* field names; a key that is not a field name raises ValueError.
dict_to_list(fieldnames, rowdict) ==
    IF \E i \in 1..Len(rowdict) : ~InFieldnames(rowdict[i].key, fieldnames)
    THEN [exc |-> ValueError, row |-> <<>>]
    ELSE [exc |-> None,
          row |-> [j \in 1..Len(fieldnames) |-> csv_field(RowGet(rowdict, fieldnames[j]))]]

\* csv.DictWriter.writerows(rows): the rows are converted and written one
\* after the other; the first failure ends the loop.
RECURSIVE writerows(_, _, _)
writerows(fieldnames, rows, csvfile) ==
    IF rows = <<>> THEN [exc |-> None, file |-> csvfile]
    ELSE LET converted == dict_to_list(fieldnames, Head(rows))
             written == write_all(<<csv_line(converted.row)>>, csvfile)
         IN  IF converted.exc # None THEN [exc |-> converted.exc, file |-> csvfile]
             ELSE IF written.exc # None THEN written
             ELSE writerows(fieldnames, Tail(rows), written.file)

\* csv.DictWriter.writeheader(): the field names as a line.
writeheader(fieldnames, csvfile) == write_all(<<csv_line(fieldnames)>>, csvfile)

\* DataExportUtils.export_to_csv(data, filename): how the call ends and the
\* file it leaves.
export_to_csv(data, path, file) ==
    IF data = <<>> THEN [out |-> Return(FALSE), file |-> file]
    ELSE LET opened == open_w(path, file)
             fieldnames == keys(data[1])
             header == IF opened.exc # None THEN opened
                       ELSE writeheader(fieldnames, opened.file)
             body == IF header.exc # None THEN header
                     ELSE writerows(fieldnames, data, header.file)
         IN  [out  |-> IF body.exc = None THEN Return(TRUE)
                       ELSE IF except_Exception(body.exc) THEN Return(FALSE)
                       ELSE Raise(body.exc),
              file |-> body.file]

(***************************************************************************)
(* Reading the exported file back: json.load                               *)
(***************************************************************************)

\* What a parsing step gives: whether it succeeded, the value parsed, and
\* the position after it.
Parsed(val, pos) == [ok |-> TRUE, val |-> val, pos |-> pos]
ParseError == [ok |-> FALSE, val |-> <<>>, pos |-> 0]

\* The token at position i; the empty character past the end.
At(text, i) == IF i <= Len(text) THEN text[i] ELSE Chr("")

\* The first position from i on that does not hold white space.
RECURSIVE SkipWs(_, _)
SkipWs(text, i) ==
    IF At(text, i) \in {Chr(" "), Chr("\n"), Chr("\t"), Chr("\r")}
    THEN SkipWs(text, i + 1) ELSE i

\* json.decoder.py_scanstring, from the position after the opening quote:
\* the characters up to the closing quote, escapes decoded; a control
\* character that is not escaped is an error (strict).  The escapes are
\* those json.dump writes for the model's characters.
RECURSIVE ScanChars(_, _, _)
ScanChars(text, i, acc) ==
    LET c == At(text, i)
        e == At(text, i + 1)
    IN  IF i > Len(text) THEN ParseError
        ELSE IF c = Chr("\"") THEN Parsed(acc, i + 1)
        ELSE IF c \in {Chr("\n"), Chr("\t")} THEN ParseError
        ELSE IF c = Chr("\\")
        THEN CASE e = Chr("\"") -> ScanChars(text, i + 2, Append(acc, Chr("\"")))
               [] e = Chr("\\") -> ScanChars(text, i + 2, Append(acc, Chr("\\")))
               [] e = Chr("n") -> ScanChars(text, i + 2, Append(acc, Chr("\n")))
               [] e = Chr("t") -> ScanChars(text, i + 2, Append(acc, Chr("\t")))
               [] OTHER -> ParseError
        ELSE ScanChars(text, i + 1, Append(acc, c))

\* A JSON string at position i.
scanstring(text, i) ==
    IF At(text, i) = Chr("\"") THEN ScanChars(text, i + 1, <<>>) ELSE ParseError

\* Whether the characters cs stand at position i.
Literal(text, i, cs) ==
    i + Len(cs) - 1 <= Len(text) /\ SubSeq(text, i, i + Len(cs) - 1) = Text(cs)

\* json.scanner: a value that is a string, a number, null, true or false.
ScanScalar(text, i) ==
    LET s == scanstring(text, i)
    IN  IF At(text, i) = Chr("\"")
        THEN (IF s.ok THEN Parsed(PyStr(s.val), s.pos) ELSE ParseError)
        ELSE IF At(text, i).k = "num" THEN Parsed(PyInt(At(text, i).v), i + 1)
        ELSE IF Literal(text, i, <<"n", "u", "l", "l">>) THEN Parsed(PyNone, i + 4)
        ELSE IF Literal(text, i, <<"t", "r", "u", "e">>) THEN Parsed(PyBool(TRUE), i + 4)
        ELSE IF Literal(text, i, <<"f", "a", "l", "s", "e">>) THEN Parsed(PyBool(FALSE), i + 5)
        ELSE ParseError

\* d[key] = value.
DictSet(d, key, value) ==
    IF \E i \in 1..Len(d) : d[i].key = key
    THEN [i \in 1..Len(d) |-> IF d[i].key = key THEN Item(key, value) ELSE d[i]]
    ELSE Append(d, Item(key, value))

\* json.decoder.JSONObject: the members of an object from position i on,
\* up to the closing brace.
RECURSIVE ScanMembers(_, _, _)
ScanMembers(text, i, acc) ==
    LET key == scanstring(text, i)
        colon == SkipWs(text, key.pos)
        value == ScanScalar(text, SkipWs(text, colon + 1))
        next == SkipWs(text, value.pos)
    IN  IF ~key.ok \/ At(text, colon) # Chr(":") THEN ParseError
        ELSE IF ~value.ok THEN ParseError
        ELSE IF At(text, next) = Chr(",")
        THEN ScanMembers(text, SkipWs(text, next + 1), DictSet(acc, key.val, value.val))
        ELSE IF At(text, next) = Chr("}")
        THEN Parsed(DictSet(acc, key.val, value.val), next + 1)
        ELSE ParseError

\* A JSON object at position i.
JSONObject(text, i) ==
    IF At(text, i) # Chr("{") THEN ParseError
    ELSE IF At(text, SkipWs(text, i + 1)) = Chr("}")
    THEN Parsed(<<>>, SkipWs(text, i + 1) + 1)
    ELSE ScanMembers(text, SkipWs(text, i + 1), <<>>)

\* json.decoder.JSONArray: the values of an array (objects) from position i
\* on, up to the closing bracket.
RECURSIVE ScanValues(_, _, _)
ScanValues(text, i, acc) ==
    LET value == JSONObject(text, i)
        next == SkipWs(text, value.pos)
    IN  IF ~value.ok THEN ParseError
        ELSE IF At(text, next) = Chr(",")
        THEN ScanValues(text, SkipWs(text, next + 1), Append(acc, value.val))
        ELSE IF At(text, next) = Chr("]")
        THEN Parsed(Append(acc, value.val), next + 1)
        ELSE ParseError

\* A JSON array at position i.
JSONArray(text, i) ==
    IF At(text, i) # Chr("[") THEN ParseError
    ELSE IF At(text, SkipWs(text, i + 1)) = Chr("]")
    THEN Parsed(<<>>, SkipWs(text, i + 1) + 1)
    ELSE ScanValues(text, SkipWs(text, i + 1), <<>>)

\* json.load(open(filename, encoding='utf-8')): the list of records the
\* file holds; an error if there is no file, if the text is not a JSON
\* array of objects, or if anything but white space follows it.
json_load(file) ==
    IF ~file.exists THEN ParseError
    ELSE LET array == JSONArray(file.text, SkipWs(file.text, 1))
         IN  IF array.ok /\ SkipWs(file.text, array.pos) = Len(file.text) + 1
             THEN Parsed(array.val, array.pos)
             ELSE ParseError

(***************************************************************************)
(* The exports tried                                                       *)
(***************************************************************************)

\* Most records in a list, and longest string value.
MaxRecs == 2
MaxStrLen == 2

\* The field names used; the last one holds a quote.
FieldId == Text(<<"i", "d">>)
FieldName == Text(<<"n", "a", "m", "e">>)
FieldWhen == Text(<<"w", "h", "e", "n">>)
FieldQuoted == Text(<<"a", "\"">>)

\* The characters of the string values: letters, the quote, the backslash,
\* a new line, and e-acute (not ASCII).
ExportChars == {Chr("a"), Chr("n"), Chr("\""), Chr("\\"), Chr("\n"), Chr("U+00E9")}

\* Records of several shapes: no field, the fields id and name, a date, a
\* bool and a None, a single field, a string UTF-8 cannot encode, and a
\* field name that needs escaping.
SampleRecords ==
    { <<>>,
      <<Item(FieldId, PyInt(7)), Item(FieldName, PyStr(Text(<<"a", ",", "b">>)))>>,
      <<Item(FieldId, PyInt(-3)), Item(FieldWhen, PyDate(2025, 3, 1))>>,
      <<Item(FieldId, PyBool(TRUE)), Item(FieldName, PyNone)>>,
      <<Item(FieldId, PyInt(0))>>,
      <<Item(FieldId, PyInt(1)), Item(FieldName, PyStr(<<Chr("a"), Surrogate>>))>>,
      <<Item(FieldQuoted, PyBool(FALSE))>> }

\* The lists of records given to an export: up to MaxRecs of the sample
\* records, and one record with any string of up to MaxStrLen characters.
ExportData ==
    SeqUpTo(SampleRecords, MaxRecs)
        \cup { << <<Item(FieldName, PyStr(s))>> >> : s \in SeqUpTo(ExportChars, MaxStrLen) }

InitExport ==
    /\ pc = "exp_start"
    /\ exp_fn = None
    /\ exp_data \in ExportData
    /\ exp_path \in {"writable", "unwritable"}
    /\ exp_file = NoFile
    /\ exp_out = None
    /\ exp_read = None
    /\ SecIdle /\ ValIdle /\ RepIdle /\ CalcIdle /\ DbIdle /\ FileIdle

ExportToCsv ==
    /\ pc = "exp_start"
    /\ LET call == export_to_csv(exp_data, exp_path, exp_file)
       IN  exp_out' = call.out /\ exp_file' = call.file
    /\ exp_fn' = "export_to_csv"
    /\ pc' = "exp_done"
    /\ UNCHANGED <<exp_data, exp_path, exp_read, secVars, valVars, repVars, calcVars, dbVars, fileVars>>

ExportToJson ==
    /\ pc = "exp_start"
    /\ LET call == export_to_json(exp_data, exp_path, exp_file)
       IN  exp_out' = call.out /\ exp_file' = call.file
    /\ exp_fn' = "export_to_json"
    /\ pc' = "exp_done"
    /\ UNCHANGED <<exp_data, exp_path, exp_read, secVars, valVars, repVars, calcVars, dbVars, fileVars>>

\* The file export_to_json was given is read back and parsed.
ReadJson ==
    /\ pc = "exp_done"
    /\ exp_fn = "export_to_json"
    /\ exp_read' = json_load(exp_file)
    /\ pc' = "exp_read"
    /\ UNCHANGED <<exp_fn, exp_data, exp_path, exp_file, exp_out,
                   secVars, valVars, repVars, calcVars, dbVars, fileVars>>

NextExport == ExportToCsv \/ ExportToJson \/ ReadJson

SpecExport == InitExport /\ [][NextExport]_vars

\* How many times a token stands in a text.
ClaimCount(text, tok) == Cardinality({i \in 1..Len(text) : text[i] = tok})

\* Whether a record of the list has a field the first record has not.
ClaimFieldNotInHeader(data) ==
    \E r \in 1..Len(data) : \E i \in 1..Len(data[r]) :
        \A j \in 1..Len(data[1]) : data[1][j].key # data[r][i].key

\* Whether a string of the list cannot be written (it holds a lone surrogate).
ClaimUnencodable(data) ==
    \E r \in 1..Len(data) : \E i \in 1..Len(data[r]) :
        /\ data[r][i].value.type = "str"
        /\ \E k \in 1..Len(data[r][i].value.val) : data[r][i].value.val[k] = Surrogate

\* C13: export_to_csv and export_to_json always return a boolean and never
\* raise; empty data (CSV), an unwritable path, a record with a field that is
\* not in the header (CSV) and a string that cannot be encoded all give
\* False; True means the whole file was written: a CSV file of one line per
\* record after the header, a JSON file that closes its array and has one
\* object per record.
C13_ExportReturnsBoolean ==
    pc \in {"exp_done", "exp_read"} =>
        /\ exp_out.exc = None
        /\ exp_out.ret \in BOOLEAN
        /\ (exp_fn = "export_to_csv" /\ exp_data = <<>>) => exp_out.ret = FALSE
        /\ exp_path = "unwritable" => (exp_out.ret = FALSE /\ ~exp_file.exists)
        /\ (exp_fn = "export_to_csv" /\ ClaimFieldNotInHeader(exp_data))
               => exp_out.ret = FALSE
        /\ ClaimUnencodable(exp_data) => exp_out.ret = FALSE
        /\ exp_out.ret = TRUE =>
               /\ exp_file.exists
               /\ exp_fn = "export_to_csv" =>
                      ClaimCount(exp_file.text, Chr("\r")) = Len(exp_data) + 1
               /\ exp_fn = "export_to_json" =>
                      /\ exp_file.text[Len(exp_file.text)] = Chr("]")
                      /\ ClaimCount(exp_file.text, Chr("}")) = Len(exp_data)

\* C13's case: a CSV export failed on a record with a field that is not in
\* the header, after the header and the first record were written.
C13_Witness ==
    /\ pc = "exp_done" /\ exp_fn = "export_to_csv"
    /\ Len(exp_data) = 2 /\ ClaimFieldNotInHeader(exp_data)
    /\ exp_out.exc = None /\ exp_out.ret = FALSE
    /\ ClaimCount(exp_file.text, Chr("\r")) = 2

\* C13's other cases: a JSON export that failed on a string that cannot be
\* encoded, an export to an unwritable path, and exports that succeeded.
C13_WitnessJsonFailed ==
    /\ pc = "exp_done" /\ exp_fn = "export_to_json"
    /\ exp_path = "writable" /\ ClaimUnencodable(exp_data)
    /\ exp_out.exc = None /\ exp_out.ret = FALSE
    /\ exp_file.exists

C13_WitnessUnwritable ==
    /\ pc = "exp_done" /\ exp_path = "unwritable" /\ exp_data # <<>>
    /\ exp_out.exc = None /\ exp_out.ret = FALSE

C13_WitnessTrue ==
    /\ pc = "exp_done" /\ exp_fn = "export_to_csv" /\ Len(exp_data) = 2
    /\ exp_out.exc = None /\ exp_out.ret = TRUE

\* The records a reader gets: every date is the string 'YYYY-MM-DD'.
ClaimDatesAsStrings(data) ==
    [r \in 1..Len(data) |->
        [i \in 1..Len(data[r]) |->
            LET o == data[r][i].value
            IN  [key |-> data[r][i].key,
                 value |-> IF o.type = "date"
                           THEN [type |-> "str",
                                 val |-> <<o.val[1], Chr("-"), o.val[2], Chr("-"), o.val[3]>>]
                           ELSE o]]]

\* C14: after export_to_json(data, f) returned True, reading and parsing f
\* gives data, with every date as a string.
C14_JsonRoundTrip ==
    (pc = "exp_read" /\ exp_out.exc = None /\ exp_out.ret = TRUE) =>
        /\ exp_read.ok
        /\ exp_read.val = ClaimDatesAsStrings(exp_data)

\* C14's case: two records, one with a date, were exported and read back.
C14_Witness ==
    /\ pc = "exp_read" /\ exp_out.exc = None /\ exp_out.ret = TRUE
    /\ Len(exp_data) = 2
    /\ \E i \in 1..Len(exp_data[1]) : exp_data[1][i].value.type = "date"
    /\ exp_read.ok
    /\ exp_read.val # exp_data

\* C14's other case: a string with a quote and a backslash came back as it was.
C14_WitnessEscapes ==
    /\ pc = "exp_read" /\ exp_out.exc = None /\ exp_out.ret = TRUE
    /\ exp_data = << <<Item(FieldName, PyStr(<<Chr("\""), Chr("\\")>>))>> >>
    /\ exp_read.ok
    /\ exp_read.val = exp_data

(***************************************************************************)
(* Database: setup.py (setup.main) and CPM.py (ensure_default_admin)       *)
(*                                                                         *)
(* The database is a record of tables, a table the sequence of its rows in *)
(* insertion order.  A row keeps the columns the programs read or that the *)
(* claims are about; the id column, a fresh uuid4 per row, is left out.    *)
(***************************************************************************)

\* config.USER_ROLES: the six roles.
USER_ROLES ==
    {"administrator", "retail_store", "contract_owner", "contractor", "manager",
     "job_seeker"}

\* config.MATERIAL_CATEGORIES.
MATERIAL_CATEGORIES ==
    {"Cement", "Blocks", "Steel", "Timber", "Roofing", "Electrical", "Plumbing",
     "Finishing", "Tools", "Aggregates", "Doors", "Windows", "Wood Products",
     "Concrete", "Other"}

\* config.MATERIAL_UNITS.
MATERIAL_UNITS ==
    {"Piece", "Bag", "Meter", "Roll", "Sheet", "Liter", "m²", "m³", "Kg", "Ton",
     "Set", "Rod"}

\* utils.Constants.MATERIAL_CATEGORIES.
Constants_MATERIAL_CATEGORIES ==
    {"Cement", "Blocks", "Steel", "Timber", "Roofing", "Electrical", "Plumbing",
     "Finishing", "Tools", "Aggregates", "Doors", "Windows", "Other"}

\* config.TRANSACTION_TYPES.
TRANSACTION_TYPES == {"sale", "transfer", "purchase", "consumption", "adjustment"}

\* A password hash: how it was derived, of which password, with which salt
\* (0: no salt).
Hash(alg, pw, salt) == [alg |-> alg, pw |-> pw, salt |-> salt]

\* hashlib.sha256(password.encode()).hexdigest().
sha256_hexdigest(password) == Hash("sha256", password, 0)

\* A row of the users table.
User(username, password_hash, role, first_login) ==
    [username |-> username, password_hash |-> password_hash, role |-> role,
     first_login |-> first_login]

\* The tables create_basic_tables creates, empty.
EmptyDatabase ==
    [users |-> <<>>, construction_materials |-> <<>>, stores |-> <<>>, jobs |-> <<>>,
     transactions |-> <<>>]

\* How a function that works on the database ends: the exception raised
\* (None: it returned) and the tables as it leaves them.
Outcome(exc, database) == [exc |-> exc, db |-> database]

\* SELECT COUNT(*) FROM users WHERE role = 'administrator'.
CountAdministrators(users) ==
    Cardinality({i \in 1..Len(users) : users[i].role = "administrator"})

\* SELECT COUNT(*) FROM users WHERE username = ?.
CountUsername(users, username) ==
    Cardinality({i \in 1..Len(users) : users[i].username = username})

\* INSERT INTO users: username is UNIQUE, a second row with the same
\* username raises sqlite3.IntegrityError.
IntegrityError == "IntegrityError"
InsertUser(database, row) ==
    IF CountUsername(database.users, row.username) > 0
    THEN Outcome(IntegrityError, database)
    ELSE Outcome(None, [database EXCEPT !.users = Append(@, row)])

\* setup.create_default_admin(cursor).
create_default_admin(database) ==
    IF CountAdministrators(database.users) > 0
    THEN Outcome(None, database)
    ELSE InsertUser(database,
                    User("admin", sha256_hexdigest("admin123"), "administrator", 1))

\* The list materials of setup.insert_construction_materials: name,
\* category, unit (the description and the price are left out).
materials ==
    <<<<"Ciment Portland 50kg", "Cement", "Bag">>,
      <<"Bloc béton 20cm", "Blocks", "Piece">>,
      <<"Bloc béton 15cm", "Blocks", "Piece">>,
      <<"Béton prêt", "Concrete", "m³">>,
      <<"Fer à béton 8mm", "Steel", "Rod">>,
      <<"Fer à béton 10mm", "Steel", "Rod">>,
      <<"Fer à béton 12mm", "Steel", "Rod">>,
      <<"Treillis soudé", "Steel", "Roll">>,
      <<"Tôle ondulée", "Roofing", "Sheet">>,
      <<"Planche Acajou 2x4", "Timber", "Piece">>,
      <<"Planche Iroko 2x6", "Timber", "Piece">>,
      <<"Contreplaqué 18mm", "Wood Products", "Sheet">>,
      <<"Encadrement porte", "Timber", "Set">>,
      <<"Tuiles d'argile", "Roofing", "Piece">>,
      <<"Tôle aluminium", "Roofing", "Sheet">>,
      <<"Charpente bois", "Timber", "Piece">>,
      <<"Brique rouge", "Blocks", "Piece">>,
      <<"Brique de sable", "Blocks", "Piece">>,
      <<"Parpaing creux 20cm", "Blocks", "Piece">>,
      <<"Sable de rivière", "Aggregates", "m³">>,
      <<"Sable gros", "Aggregates", "m³">>,
      <<"Gravier 20mm", "Aggregates", "m³">>,
      <<"Gravillons", "Aggregates", "m³">>,
      <<"Câble électrique 2.5mm", "Electrical", "Meter">>,
      <<"Gaine PVC 20mm", "Electrical", "Meter">>,
      <<"Prise interrupteur", "Electrical", "Piece">>,
      <<"Disjoncteur", "Electrical", "Piece">>,
      <<"Tube PVC 4 pouces", "Plumbing", "Meter">>,
      <<"Tube PVC 2 pouces", "Plumbing", "Meter">>,
      <<"Réservoir 1000L", "Plumbing", "Piece">>,
      <<"Cuvette WC", "Plumbing", "Piece">>,
      <<"Peinture murale", "Finishing", "Liter">>,
      <<"Carrelage 30x30", "Finishing", "m²">>,
      <<"Marbre", "Finishing", "m²">>,
      <<"Placo plafond", "Finishing", "Sheet">>,
      <<"Porte bois", "Doors", "Piece">>,
      <<"Fenêtre aluminium", "Windows", "m²">>,
      <<"Porte blindée", "Doors", "Piece">>,
      <<"Brouette", "Tools", "Piece">>,
      <<"Pelle", "Tools", "Piece">>,
      <<"Marteau", "Tools", "Piece">>,
      <<"Mètre ruban", "Tools", "Piece">>,
      <<"Bambou", "Timber", "Piece">>,
      <<"Pierre latérite", "Aggregates", "m³">>,
      <<"Raphia", "Roofing", "Bundle">>,
      <<"Argile locale", "Blocks", "m³">>>>

\* setup.insert_construction_materials(cursor).
insert_construction_materials(database) ==
    IF Len(database.construction_materials) > 0
    THEN Outcome(None, database)
    ELSE Outcome(None, [database EXCEPT !.construction_materials = @ \o materials])

\* A bug for sample_users: a role that is not one of config.USER_ROLES.
sample_users_retailer_role ==
    <<User("retailer1", sha256_hexdigest("retail123"), "retailer", 0),
      User("contractor1", sha256_hexdigest("contract123"), "contractor", 0),
      User("owner1", sha256_hexdigest("owner123"), "contract_owner", 0),
      User("manager1", sha256_hexdigest("manager123"), "manager", 0),
      User("jobseeker1", sha256_hexdigest("seeker123"), "job_seeker", 0)>>

\* The list sample_users of setup.create_sample_data, as the rows inserted.
sample_users ==
    <<User("retailer1", sha256_hexdigest("retail123"), "retail_store", 0),
      User("contractor1", sha256_hexdigest("contract123"), "contractor", 0),
      User("owner1", sha256_hexdigest("owner123"), "contract_owner", 0),
      User("manager1", sha256_hexdigest("manager123"), "manager", 0),
      User("jobseeker1", sha256_hexdigest("seeker123"), "job_seeker", 0)>>

\* The list sample_stores: name, type, owner.
sample_stores ==
    <<<<"Matériaux Mballa", "retail", "retailer1">>,
      <<"Construction Nguesso", "retail", "contractor1">>,
      <<"Dépôt Biya", "contract_owner", "owner1">>>>

\* The list sample_jobs: title, employer.
sample_jobs ==
    <<<<"Maçon expérimenté", "owner1">>,
      <<"Électricien", "retailer1">>,
      <<"Charpentier", "contractor1">>>>

\* The first loop of create_sample_data: the rows are inserted one after
\* the other, the first failure ends the loop.
RECURSIVE InsertUsers(_, _)
InsertUsers(database, rows) ==
    IF rows = <<>> THEN Outcome(None, database)
    ELSE LET inserted == InsertUser(database, Head(rows))
         IN  IF inserted.exc # None THEN inserted
             ELSE InsertUsers(inserted.db, Tail(rows))

\* setup.create_sample_data(cursor).
create_sample_data(database) ==
    LET users == InsertUsers(database, sample_users)
    IN  IF users.exc # None THEN users
        ELSE Outcome(None, [users.db EXCEPT !.stores = @ \o sample_stores,
                                            !.jobs = @ \o sample_jobs])

\* setup.create_database(), the schema file database_setup.sql not being
\* there: the tables are created if they do not exist, the three steps run,
\* and their inserts are committed together; an exception leaves the
\* function before the commit, and the database as it was.
create_database(database) ==
    LET admin == create_default_admin(database)
        seeded == IF admin.exc # None THEN admin
                  ELSE insert_construction_materials(admin.db)
        sampled == IF seeded.exc # None THEN seeded
                   ELSE create_sample_data(seeded.db)
    IN  IF sampled.exc # None THEN Outcome(sampled.exc, database) ELSE sampled

\* setup.main(): True, or False if create_database raised.
setup_main(database) ==
    LET created == create_database(database)
    IN  [ret |-> IF created.exc = None THEN "True" ELSE "False", db |-> created.db]

\* SecurityManager.hash_password(password): a hash with a random salt.
SecurityManager_hash_password(password, salt) == Hash("SecurityManager", password, salt)

\* The salts SecurityManager draws from.
Salts == {1, 2}

\* provided_sha256, the literal of ensure_default_admin: the SHA-256 of
\* 'admin123'.
provided_sha256 == sha256_hexdigest("admin123")

\* What the file system does during a launch: nothing fails, os.makedirs
\* fails, or open(flag_file, 'w') fails.
FileSystem == {"ok", "makedirs fails", "open fails"}

\* ensure_default_admin, first step: 'admin' is inserted if no user is an
\* administrator.
EnsureAdmin(database, salt) ==
    IF CountAdministrators(database.users) = 0
    THEN InsertUser(database,
                    User("admin", SecurityManager_hash_password("admin123", salt),
                         "administrator", 0))
    ELSE Outcome(None, database)

\* A bug for EnsureNewadmin: the count of administrators is tested again,
\* not the count of users named 'newadmin'.
EnsureNewadmin_wrong_count(database) ==
    IF CountAdministrators(database.users) = 0
    THEN InsertUser(database, User("newadmin", provided_sha256, "administrator", 1))
    ELSE Outcome(None, database)

\* ensure_default_admin, second step: 'newadmin' is inserted if no user has
\* that name.
EnsureNewadmin(database) ==
    IF CountUsername(database.users, "newadmin") = 0
    THEN InsertUser(database, User("newadmin", provided_sha256, "administrator", 1))
    ELSE Outcome(None, database)

\* UPDATE users SET password_hash=?, first_login=1, ... WHERE username IN
\* ('admin','newadmin').
UpdateAdmins(database, new_hash) ==
    [database EXCEPT !.users =
        [i \in 1..Len(@) |->
            IF @[i].username \in {"admin", "newadmin"}
            THEN [@[i] EXCEPT !.password_hash = new_hash, !.first_login = 1]
            ELSE @[i]]]

\* ensure_default_admin, third step: the reset, if the flag file is not
\* there.  The flag file is created after the commit; an exception of
\* os.makedirs skips the step, one of open leaves the reset committed and
\* no flag file.
ResetOnce(database, flag, fs, salt) ==
    IF fs = "makedirs fails" \/ flag
    THEN [db |-> database, flag |-> flag, reset |-> FALSE]
    ELSE [db |-> UpdateAdmins(database,
                              SecurityManager_hash_password("Admin@2025!Reset", salt)),
          flag |-> fs # "open fails",
          reset |-> TRUE]

\* CPM.ensure_default_admin(): each step commits what it wrote; an
\* exception of an INSERT leaves the function.
ensure_default_admin(database, flag, fs, salt1, salt2) ==
    LET admin == EnsureAdmin(database, salt1)
        newadmin == IF admin.exc # None THEN admin ELSE EnsureNewadmin(admin.db)
        done == ResetOnce(newadmin.db, flag, fs, salt2)
    IN  IF newadmin.exc # None
        THEN [exc |-> newadmin.exc, db |-> newadmin.db, flag |-> flag, reset |-> FALSE]
        ELSE [exc |-> None, db |-> done.db, flag |-> done.flag, reset |-> done.reset]

\* Most programs run one after the other.
MaxRuns == 4

InitSetup ==
    /\ pc = "db_ready"
    /\ db = EmptyDatabase
    /\ flag_file = FALSE
    /\ db_op = None
    /\ db_ret = None
    /\ setup_ok = 0
    /\ launch_ok = 0
    /\ resets = 0
    /\ runs = 0
    /\ SecIdle /\ ValIdle /\ RepIdle /\ CalcIdle /\ ExpIdle /\ FileIdle

\* python setup.py
SetupMain ==
    /\ pc = "db_ready"
    /\ runs < MaxRuns
    /\ LET run == setup_main(db)
       IN  /\ db' = run.db
           /\ db_ret' = run.ret
           /\ setup_ok' = IF run.ret = "True" THEN setup_ok + 1 ELSE setup_ok
    /\ db_op' = "setup"
    /\ runs' = runs + 1
    /\ UNCHANGED <<pc, flag_file, launch_ok, resets>>
    /\ UNCHANGED <<secVars, valVars, repVars, calcVars, expVars, fileVars>>

\* python CPM.py, up to the start of the application.
Launch ==
    /\ pc = "db_ready"
    /\ runs < MaxRuns
    /\ \E fs \in FileSystem, salt1 \in Salts, salt2 \in Salts :
          LET run == ensure_default_admin(db, flag_file, fs, salt1, salt2)
          IN  /\ db' = run.db
              /\ flag_file' = run.flag
              /\ db_ret' = IF run.exc = None THEN "returned" ELSE run.exc
              /\ launch_ok' = IF run.exc = None THEN launch_ok + 1 ELSE launch_ok
              /\ resets' = IF run.reset THEN resets + 1 ELSE resets
    /\ db_op' = "launch"
    /\ runs' = runs + 1
    /\ UNCHANGED <<pc, setup_ok>>
    /\ UNCHANGED <<secVars, valVars, repVars, calcVars, expVars, fileVars>>

NextSetup == SetupMain \/ Launch

SpecSetup == InitSetup /\ [][NextSetup]_vars

\* C15: after any sequence of setup runs and launcher starts, the role of
\* every user is one of the six roles of config.USER_ROLES.
C15_RolesEnumerated ==
    pc = "db_ready" => \A i \in 1..Len(db.users) : db.users[i].role \in USER_ROLES

\* C15's case: setup and the launcher both ran; the table holds the default
\* administrator, the five sample users and 'newadmin'.
C15_Witness ==
    /\ pc = "db_ready" /\ setup_ok >= 1 /\ launch_ok >= 1
    /\ Len(db.users) = 7
    /\ {db.users[i].role : i \in 1..Len(db.users)} = USER_ROLES

\* C17: every material seeded by insert_construction_materials has a
\* category that is in config.MATERIAL_CATEGORIES and in the category list
\* of utils.Constants, and a unit that is in config.MATERIAL_UNITS.
C17_SeededMaterialsEnumerated ==
    pc = "db_ready" =>
        \A i \in 1..Len(db.construction_materials) :
            LET category == db.construction_materials[i][2]
                unit == db.construction_materials[i][3]
            IN  /\ category \in MATERIAL_CATEGORIES
                /\ category \in Constants_MATERIAL_CATEGORIES
                /\ unit \in MATERIAL_UNITS

\* The password hashes of the accounts 'admin' and 'newadmin'.
ClaimAdminHashes ==
    [u \in {"admin", "newadmin"} |->
        {db.users[i].password_hash : i \in {j \in 1..Len(db.users) : db.users[j].username = u}}]

\* C18: over any sequence of launches the reset is applied at most once;
\* the flag file is there only after a reset was committed; and once the
\* flag file is there, no step changes the password hashes of 'admin' and
\* 'newadmin'.
C18_OneTimeReset ==
    /\ [](pc = "db_ready" => (resets <= 1 /\ (flag_file => resets >= 1)))
    /\ [][(pc = "db_ready" /\ flag_file) => ClaimAdminHashes' = ClaimAdminHashes]_vars

\* C19: after a run of ensure_default_admin that returned, at least one
\* user is an administrator and exactly one is named 'newadmin'; a run on a
\* database an earlier run returned from inserts no user row.
C19_AdminAccountsEnsured ==
    /\ []((pc = "db_ready" /\ db_op = "launch" /\ db_ret = "returned") =>
             /\ Cardinality({i \in 1..Len(db.users) : db.users[i].role = "administrator"}) >= 1
             /\ Cardinality({i \in 1..Len(db.users) : db.users[i].username = "newadmin"}) = 1)
    /\ [][(pc = "db_ready" /\ launch_ok >= 1 /\ db_op' = "launch" /\ runs' = runs + 1)
              => Len(db'.users) = Len(db.users)]_vars

\* C19's case: the launcher ran twice on a database of its own; the table
\* holds 'admin' and 'newadmin' and nothing else.
C19_Witness ==
    /\ pc = "db_ready" /\ db_op = "launch" /\ db_ret = "returned"
    /\ launch_ok = 2 /\ setup_ok = 0 /\ runs = 2
    /\ Len(db.users) = 2

\* C19's other case: the launcher ran after setup, which had created the
\* administrator; only 'newadmin' was added.
C19_WitnessAfterSetup ==
    /\ pc = "db_ready" /\ db_op = "launch" /\ db_ret = "returned"
    /\ launch_ok = 1 /\ setup_ok = 1 /\ runs = 2
    /\ Len(db.users) = 7

\* How many users, materials, stores and jobs there are.
ClaimCounts ==
    <<Len(db.users), Len(db.construction_materials), Len(db.stores), Len(db.jobs)>>

\* C20: a run of setup.main on a database an earlier run initialised
\* returns True and leaves the numbers of users, materials, stores and jobs
\* as they were.
C20_SetupRerunnable ==
    [][(pc = "db_ready" /\ setup_ok >= 1 /\ db_op' = "setup" /\ runs' = runs + 1)
           => (db_ret' = "True" /\ ClaimCounts' = ClaimCounts)]_vars

\* ---------------------------------------------------------------------
\* The transactions table (setup.py) written through sqlite_cli.py.
\* ---------------------------------------------------------------------

\* A column value: NULL or one text value.
NULL == <<>>

Value(v) == <<v>>

\* The columns of the transactions table that carry a constraint or that
\* the transfer rule reads; the columns with a default are left out.
Transaction(id, type, from_store_id, to_store_id, material_id, quantity, created_by) ==
    [id |-> id, type |-> type, from_store_id |-> from_store_id,
     to_store_id |-> to_store_id, material_id |-> material_id,
     quantity |-> quantity, created_by |-> created_by]

\* The NOT NULL columns of the table, in the order of their declaration.
NotNullColumns == <<"type", "material_id", "quantity", "created_by">>

\* The first NOT NULL column of the row that holds NULL, or None.
NotNullFailed(row) ==
    LET failed == {i \in 1..Len(NotNullColumns) : row[NotNullColumns[i]] = NULL}
    IN  IF failed = {}
        THEN None
        ELSE NotNullColumns[CHOOSE i \in failed : \A j \in failed : i <= j]

\* id TEXT PRIMARY KEY: two rows never share a value; NULL is not a value.
PrimaryKeyFailed(rows, row) ==
    /\ row.id # NULL
    /\ \E i \in 1..Len(rows) : rows[i].id = row.id

\* cur.execute("INSERT INTO transactions ...") on the table as setup.py
\* declares it: foreign keys are not enforced on this connection and the
\* table states no CHECK.
insert_transaction(database, row) ==
    IF NotNullFailed(row) # None
    THEN Outcome("NOT NULL constraint failed: transactions." \o NotNullFailed(row), database)
    ELSE IF PrimaryKeyFailed(database.transactions, row)
    THEN Outcome("UNIQUE constraint failed: transactions.id", database)
    ELSE Outcome(None, [database EXCEPT !.transactions = Append(@, row)])

\* sqlite_cli.py db -e "<INSERT INTO transactions ...>": what is printed.
cmd_execute(database, row) ==
    LET run == insert_transaction(database, row)
    IN  [db |-> run.db,
         out |-> IF run.exc = None THEN "OK" ELSE "Error: " \o run.exc]

MaxStored == 2

TransactionIds == {NULL, Value("t1"), Value("t2")}

TransactionTypeValues == {NULL, Value("transfer"), Value("sale")}

StoreRefs == {NULL, Value("s1")}

MaterialRefs == {NULL, Value("m1")}

Quantities == {NULL, Value(1)}

UserRefs == {NULL, Value("u1")}

\* The database as python setup.py leaves it: the tables exist and the
\* transactions table is empty.
InitTransactions ==
    /\ pc = "db_ready"
    /\ db = setup_main(EmptyDatabase).db
    /\ flag_file = FALSE
    /\ db_op = None
    /\ db_ret = None
    /\ setup_ok = 1
    /\ launch_ok = 0
    /\ resets = 0
    /\ runs = 1
    /\ SecIdle /\ ValIdle /\ RepIdle /\ CalcIdle /\ ExpIdle /\ FileIdle

\* python sqlite_cli.py db -e "INSERT INTO transactions (...) VALUES (...)"
Execute ==
    /\ pc = "db_ready"
    /\ Len(db.transactions) < MaxStored
    /\ \E id \in TransactionIds, type \in TransactionTypeValues,
          from_store_id \in StoreRefs, to_store_id \in StoreRefs,
          material_id \in MaterialRefs, quantity \in Quantities,
          created_by \in UserRefs :
          LET run == cmd_execute(db, Transaction(id, type, from_store_id, to_store_id,
                                                 material_id, quantity, created_by))
          IN  /\ db' = run.db
              /\ db_ret' = run.out
    /\ db_op' = "execute"
    /\ UNCHANGED <<pc, flag_file, setup_ok, launch_ok, resets, runs>>
    /\ UNCHANGED <<secVars, valVars, repVars, calcVars, expVars, fileVars>>

NextTransactions == Execute

SpecTransactions == InitTransactions /\ [][NextTransactions]_vars

\* C16: every stored transaction of type 'transfer' has both a source
\* store reference and a destination store reference, so that a transfer
\* with either reference missing is never in the table.
C16_TransfersHaveBothStores ==
    pc = "db_ready" =>
        \A i \in 1..Len(db.transactions) :
            db.transactions[i].type = Value("transfer") =>
                /\ db.transactions[i].from_store_id # NULL
                /\ db.transactions[i].to_store_id # NULL

\* C21: whenever export_to_csv returns False the target file is as it was
\* before the call (here: there was no file), so that it is not created,
\* emptied or written in part.
C21_FailedCsvLeavesFile ==
    (pc = "exp_done" /\ exp_fn = "export_to_csv"
        /\ exp_out.exc = None /\ exp_out.ret = FALSE)
        => exp_file = NoFile

\* ---------------------------------------------------------------------
\* FileUtils.sanitize_filename
\* ---------------------------------------------------------------------

\* A file name is written as runs of one character: Run("a", 300) stands
\* for 'a' * 300.
Run(c, n) == [c |-> c, n |-> n]

\* len(s)
RECURSIVE len(_)
len(s) == IF s = <<>> THEN 0 ELSE Head(s).n + len(Tail(s))

\* s[:k] for 0 <= k
RECURSIVE Take(_, _)
Take(s, k) ==
    IF s = <<>> \/ k = 0 THEN <<>>
    ELSE IF Head(s).n >= k THEN <<Run(Head(s).c, k)>>
    ELSE <<Head(s)>> \o Take(Tail(s), k - Head(s).n)

\* s[:stop]: a negative stop counts from the end of s.
Slice(s, stop) ==
    IF stop >= 0 THEN Take(s, stop)
    ELSE IF len(s) + stop > 0 THEN Take(s, len(s) + stop)
    ELSE <<>>

\* The characters of the class [<>:"/\\|?*]
InvalidChars == {"<", ">", ":", "\"", "/", "\\", "|", "?", "*"}

\* re.sub(r'[<>:"/\\|?*]', '_', filename)
re_sub_invalid(filename) ==
    [i \in 1..Len(filename) |->
        IF filename[i].c \in InvalidChars THEN Run("_", filename[i].n) ELSE filename[i]]

\* os.path.splitext(p) for a p without separators: the extension starts at
\* the last dot, unless only dots stand before it.
splitext(p) ==
    LET dots == {i \in 1..Len(p) : p[i].c = "."}
    IN  IF dots = {} THEN [name |-> p, ext |-> <<>>]
        ELSE LET d == CHOOSE i \in dots : \A j \in dots : j <= i
             IN  IF \A j \in 1..(d - 1) : p[j].c = "."
                 THEN [name |-> p, ext |-> <<>>]
                 ELSE [name |-> SubSeq(p, 1, d - 1)
                                  \o (IF p[d].n > 1 THEN <<Run(".", p[d].n - 1)>> ELSE <<>>),
                       ext  |-> <<Run(".", 1)>> \o SubSeq(p, d + 1, Len(p))]

\* FileUtils.sanitize_filename(filename)
sanitize_filename(filename) ==
    LET sanitized == re_sub_invalid(filename)
        parts == splitext(sanitized)
    IN  IF len(sanitized) > 255
        THEN Slice(parts.name, 255 - len(parts.ext)) \o parts.ext
        ELSE sanitized

MaxFileRuns == 3

FileChars == {"a", ".", "<"}

RunLengths == {1, 2, 253, 255, 300}

\* The file names given: up to MaxFileRuns runs.
Filenames == SeqUpTo({Run(c, n) : c \in FileChars, n \in RunLengths}, MaxFileRuns)

InitFiles ==
    /\ pc = "file_start"
    /\ file_in \in Filenames
    /\ file_out = None
    /\ SecIdle /\ ValIdle /\ RepIdle /\ CalcIdle /\ ExpIdle /\ DbIdle

SanitizeFilename ==
    /\ pc = "file_start"
    /\ file_out' = sanitize_filename(file_in)
    /\ pc' = "file_done"
    /\ UNCHANGED <<file_in, secVars, valVars, repVars, calcVars, expVars, dbVars>>

NextFiles == SanitizeFilename

SpecFiles == InitFiles /\ [][NextFiles]_vars

\* The same text with no two neighbouring runs of one character.
RECURSIVE ClaimMerged(_)
ClaimMerged(s) ==
    IF Len(s) < 2 THEN s
    ELSE IF s[1].c = s[2].c
    THEN ClaimMerged(<<Run(s[1].c, s[1].n + s[2].n)>> \o SubSeq(s, 3, Len(s)))
    ELSE <<s[1]>> \o ClaimMerged(Tail(s))

\* C22: for every file name the result of sanitize_filename has at most 255
\* characters and none of the characters < > : " / \ | ? *; when the input
\* has more than 255 characters the result is a beginning of the name part
\* followed by the whole extension.
C22_SanitizedFilename ==
    pc = "file_done" =>
        /\ len(file_out) <= 255
        /\ \A i \in 1..Len(file_out) : file_out[i].c \notin InvalidChars
        /\ len(file_in) > 255 =>
               LET parts == splitext(re_sub_invalid(file_in))
               IN  /\ len(file_out) >= len(parts.ext)
                   /\ ClaimMerged(file_out) =
                          ClaimMerged(Take(parts.name, len(file_out) - len(parts.ext))
                                          \o parts.ext)

\* The transactions of the list that fall in the period, by their place in
\* the list, and the day key each is counted under.
ClaimInPeriod == {i \in DOMAIN rep_in : ClaimInWindow(rep_in[i], rep_days, rep_now)}
ClaimDayKey(tx) == format_date(ClaimDate(tx)[1])

C23_WitnessTwoDays ==
    /\ pc = "sales_done"
    /\ rep_out.total_sales = 2
    /\ Cardinality(DOMAIN rep_out.daily_breakdown) = 2
    /\ \A k \in DOMAIN rep_out.daily_breakdown : rep_out.daily_breakdown[k].count = 1

\* ---------------------------------------------------------------------
\* A new database in a home directory that has been used before.
\* ---------------------------------------------------------------------

\* The database is a file of the working directory, admin_reset_done.flag
\* a file of ~/Documents/CBPM: a database that has just been created may
\* find the flag file of an earlier one.
InitFreshDatabase ==
    /\ pc = "db_ready"
    /\ db = EmptyDatabase
    /\ flag_file \in BOOLEAN
    /\ db_op = None
    /\ db_ret = None
    /\ setup_ok = 0
    /\ launch_ok = 0
    /\ resets = 0
    /\ runs = 0
    /\ SecIdle /\ ValIdle /\ RepIdle /\ CalcIdle /\ ExpIdle /\ FileIdle

SpecFreshDatabase == InitFreshDatabase /\ [][NextSetup]_vars

\* C24: once the routine that created it has finished, the account 'admin'
\* (created with the password 'admin123' that stands in the source, by
\* setup.create_default_admin or by CPM.ensure_default_admin) has its
\* first_login flag set, whether the reset flag file exists or not.
C24_DefaultAdminMustRotate ==
    pc = "db_ready" =>
        \A i \in 1..Len(db.users) :
            db.users[i].username = "admin" => db.users[i].first_login = 1

====
